---- MODULE Spec2Model ----
(***************************************************************************)
(* Montana CS WFM: vacation interval store, agent management, half-hour    *)
(* coverage and required-headcount engines, modelled from                  *)
(* src/src/components/ui/slider.tsx.                                       *)
(***************************************************************************)
EXTENDS Integers, Sequences, FiniteSets, TLC

(***************************************************************************)
(* Bounds of the model.                                                    *)
(***************************************************************************)
\* number of consecutive calendar days offered by the vacation date inputs
NumDays == 3
\* agent names the user can type or a CSV can mention
Names == {"a", "b"}

\* browser time zones, in minutes east of UTC (New York, UTC, Riyadh)
TimeZones == {-300, 0, 180}

(***************************************************************************)
(* Calendar dates.  An ISO date "YYYY-MM-DD" is the triple <<y, m, d>>;    *)
(* the string order of zero-padded ISO dates is the lexicographic order of *)
(* the triples.                                                            *)
(***************************************************************************)
EpochYear == 2024

IsLeap(y) == (y % 4 = 0 /\ y % 100 # 0) \/ y % 400 = 0

DaysInMonth(y, m) ==
  IF m = 2 THEN (IF IsLeap(y) THEN 29 ELSE 28)
  ELSE IF m \in {4, 6, 9, 11} THEN 30 ELSE 31

DaysInYear(y) == IF IsLeap(y) THEN 366 ELSE 365

RECURSIVE DaysBeforeYear(_)
DaysBeforeYear(y) == IF y <= EpochYear THEN 0 ELSE DaysInYear(y - 1) + DaysBeforeYear(y - 1)

RECURSIVE DaysBeforeMonth(_, _)
DaysBeforeMonth(y, m) == IF m <= 1 THEN 0 ELSE DaysInMonth(y, m - 1) + DaysBeforeMonth(y, m - 1)

\* days from the first of January of EpochYear to the date
DayNum(iso) == DaysBeforeYear(iso[1]) + DaysBeforeMonth(iso[1], iso[2]) + (iso[3] - 1)

RECURSIVE YearOfDay(_, _)
YearOfDay(n, y) == IF n < DaysInYear(y) THEN <<y, n>> ELSE YearOfDay(n - DaysInYear(y), y + 1)

RECURSIVE MonthOfDay(_, _, _)
MonthOfDay(n, y, m) ==
  IF n < DaysInMonth(y, m) THEN <<m, n>> ELSE MonthOfDay(n - DaysInMonth(y, m), y, m + 1)

\* the date that is n days after the first of January of EpochYear
FromDayNum(n) ==
  LET yy == YearOfDay(n, EpochYear)
      mm == MonthOfDay(yy[2], yy[1], 1)
  IN  <<yy[1], mm[1], mm[2] + 1>>

MinutesPerDay == 24 * 60

\* Date.prototype.toISOString().slice(0, 10): the UTC calendar date of an instant
UTCDateOf(utcMinutes) == FromDayNum(utcMinutes \div MinutesPerDay)

\* new Date(iso + "T00:00:00"): local midnight, as minutes of UTC time
LocalMidnight(iso, tz) == DayNum(iso) * MinutesPerDay - tz

compareISO(a, b) ==
  LET lt == \/ a[1] < b[1]
            \/ a[1] = b[1] /\ a[2] < b[2]
            \/ a[1] = b[1] /\ a[2] = b[2] /\ a[3] < b[3]
  IN  IF lt THEN -1 ELSE IF a = b THEN 0 ELSE 1

addDaysISO(iso, days, tz) == UTCDateOf(LocalMidnight(iso, tz) + days * MinutesPerDay)

withinRange_EndExclusive(date, start, end) ==
  compareISO(start, date) <= 0 /\ compareISO(date, end) < 0

withinRange(date, start, end) ==
  compareISO(start, date) <= 0 /\ compareISO(date, end) <= 0

(***************************************************************************)
(* Vacation store helpers.  Vacations is a function from the agent names   *)
(* that have an entry to a sequence of ranges [start, end].                *)
(***************************************************************************)
NoVacations == [n \in {} |-> <<>>]

\* vacations[agent] ?? []
RangesOf(vac, agent) == IF agent \in DOMAIN vac THEN vac[agent] ELSE <<>>

RECURSIVE AnyWithin(_, _, _)
AnyWithin(ranges, isoDate, i) ==
  IF i > Len(ranges) THEN FALSE
  ELSE IF withinRange(isoDate, ranges[i].start, ranges[i].end) THEN TRUE
  ELSE AnyWithin(ranges, isoDate, i + 1)

isAgentOnVacation(agent, isoDate, vac) == AnyWithin(RangesOf(vac, agent), isoDate, 1)

\* Array.prototype.sort with (a, b) => compareISO(a.start, b.start): stable insertion
RECURSIVE InsertByStart(_, _)
InsertByStart(sorted, r) ==
  IF sorted = <<>> THEN <<r>>
  ELSE IF compareISO(r.start, Head(sorted).start) < 0 THEN <<r>> \o sorted
  ELSE <<Head(sorted)>> \o InsertByStart(Tail(sorted), r)

RECURSIVE SortByStart(_)
SortByStart(ranges) ==
  IF ranges = <<>> THEN <<>>
  ELSE InsertByStart(SortByStart(SubSeq(ranges, 1, Len(ranges) - 1)), ranges[Len(ranges)])

RECURSIVE MergeSweep(_, _, _, _)
MergeSweep(ordered, i, out, tz) ==
  IF i > Len(ordered) THEN out
  ELSE LET r == ordered[i] IN
       IF out = <<>> THEN MergeSweep(ordered, i + 1, <<r>>, tz)
       ELSE LET last == out[Len(out)] IN
            IF compareISO(r.start, addDaysISO(last.end, 1, tz)) <= 0
            THEN IF compareISO(r.end, last.end) > 0
                 THEN MergeSweep(ordered, i + 1,
                                 [out EXCEPT ![Len(out)] = [start |-> last.start, end |-> r.end]], tz)
                 ELSE MergeSweep(ordered, i + 1, out, tz)
            ELSE MergeSweep(ordered, i + 1, Append(out, r), tz)

mergeRanges(ranges, tz) ==
  IF Len(ranges) <= 1 THEN SortByStart(ranges)
  ELSE MergeSweep(SortByStart(ranges), 1, <<>>, tz)


(***************************************************************************)
(* Day blocks, agents and roster.                                          *)
(***************************************************************************)
WEEKDAYS == <<"Saturday", "Sunday", "Monday", "Tuesday", "Wednesday", "Thursday", "Friday">>

WeekdaySet == {WEEKDAYS[i] : i \in 1..Len(WEEKDAYS)}

\* an optional number is <<>> (undefined) or <<n>>
Undefined == <<>>
Some(n) == <<n>>

DayBlock(active, startMin, endMin, breakStartMin, breakMins) ==
  [active |-> active, startMin |-> startMin, endMin |-> endMin,
   breakStartMin |-> breakStartMin, breakMins |-> breakMins]

DEFAULT_DAY == DayBlock(TRUE, 9 * 60, 17 * 60, Some(13 * 60), Some(60))

Agent(name, country, remote, level, fridayAllowed, breakPref) ==
  [name |-> name, country |-> country, remote |-> remote, level |-> level,
   fridayAllowed |-> fridayAllowed, breakPref |-> breakPref]

NoRoster == [n \in {} |-> <<>>]

\* the week built by addAgent and by Auto plan
DefaultWeek(fridayAllowed, breakPref) ==
  [d \in WeekdaySet |->
     DayBlock(IF d = "Friday" THEN fridayAllowed ELSE TRUE,
              9 * 60, 17 * 60,
              IF breakPref = "60" THEN Some(13 * 60) ELSE Undefined,
              Some(IF breakPref = "60" THEN 60 ELSE 0))]

\* { ...obj, [key]: value }
Put(f, key, value) == [k \in DOMAIN f \cup {key} |-> IF k = key THEN value ELSE f[k]]

\* const next = { ...obj }; delete next[key]
Delete(f, key) == [k \in DOMAIN f \ {key} |-> f[k]]

\* agents.find((a) => a.name === name) is defined
HasAgent(list, name) == \E i \in 1..Len(list) : list[i].name = name

\* prev.filter((a) => a.name !== name)
RECURSIVE FilterOutName(_, _)
FilterOutName(list, name) ==
  IF list = <<>> THEN <<>>
  ELSE IF Head(list).name # name THEN <<Head(list)>> \o FilterOutName(Tail(list), name)
  ELSE FilterOutName(Tail(list), name)

AgentNames(list) == {list[i].name : i \in 1..Len(list)}

(***************************************************************************)
(* Coverage engine.                                                        *)
(***************************************************************************)
Max(a, b) == IF a >= b THEN a ELSE b
Min(a, b) == IF a <= b THEN a ELSE b

halfHourBuckets == 48

Buckets == 0..(halfHourBuckets - 1)

\* blk.breakMins || 0
OrZero(opt) == IF opt = Undefined THEN 0 ELSE opt[1]

\* roster[name]?.[day]: <<>> when there is no such entry, else <<blk>>
BlockAt(ros, name, day) ==
  IF name \in DOMAIN ros /\ day \in DOMAIN ros[name] THEN <<ros[name][day]>> ELSE <<>>

\* minutes of work and of break of a block in bucket k
WorkIn(blk, k) ==
  Max(0, Min(blk.endMin, (k + 1) * 30) - Max(blk.startMin, k * 30))

BreakIn_NoClip(blk, k) ==
  IF OrZero(blk.breakMins) > 0 /\ blk.breakStartMin # Undefined
  THEN LET bs == blk.breakStartMin[1]
           be == blk.breakStartMin[1] + OrZero(blk.breakMins)
       IN  Min(be, (k + 1) * 30) - Max(bs, k * 30)
  ELSE 0

BreakIn(blk, k) ==
  IF OrZero(blk.breakMins) > 0 /\ blk.breakStartMin # Undefined
  THEN LET bs == blk.breakStartMin[1]
           be == blk.breakStartMin[1] + OrZero(blk.breakMins)
       IN  Max(0, Min(be, (k + 1) * 30) - Max(bs, k * 30))
  ELSE 0

Counts_ZeroNet(blk, k) == WorkIn(blk, k) - BreakIn(blk, k) >= 0

\* the test "work - brk > 0" of the bucket loop
Counts(blk, k) == WorkIn(blk, k) - BreakIn(blk, k) > 0

Skipped_IgnoringVacations(ros, a, day, dateISO, vac) ==
  LET blk == BlockAt(ros, a.name, day) IN blk = <<>> \/ ~blk[1].active

\* the two "continue" tests of the agent loop
Skipped(ros, a, day, dateISO, vac) ==
  \/ isAgentOnVacation(a.name, dateISO, vac)
  \/ LET blk == BlockAt(ros, a.name, day) IN blk = <<>> \/ ~blk[1].active

RECURSIVE CoverageLoop(_, _, _, _, _, _, _)
CoverageLoop(cov, ros, list, i, day, dateISO, vac) ==
  IF i > Len(list) THEN cov
  ELSE IF Skipped(ros, list[i], day, dateISO, vac)
  THEN CoverageLoop(cov, ros, list, i + 1, day, dateISO, vac)
  ELSE LET blk == ros[list[i].name][day] IN
       CoverageLoop([k \in Buckets |-> IF Counts(blk, k) THEN cov[k] + 1 ELSE cov[k]],
                    ros, list, i + 1, day, dateISO, vac)

halfHourCoverage(ros, list, day, dateISO, vac) ==
  CoverageLoop([k \in Buckets |-> 0], ros, list, 1, day, dateISO, vac)

(***************************************************************************)
(* CSV export and import.  A CSV file is its header line, a sequence of    *)
(* column names, and its data lines, each a sequence of cells.  A cell is  *)
(* the trimmed text between two commas: Text(s) for text that holds no     *)
(* digits, Num(n) for a decimal integer, Time(h, m) for "HH:MM".           *)
(***************************************************************************)
Text(s) == <<"text", s>>
Num(n) == <<"num", n>>
Time(h, m) == <<"time", h, m>>
EmptyCell == Text("")

toHHMM(m) == Time(m \div 60, m % 60)

NEEDED == <<"agent", "day", "active", "start", "end", "break_start", "break_minutes">>

\* the cells of the line exportCSV writes for one agent and one weekday
\* (agent names of the model hold no comma)
ExportLine(ros, a, d) ==
  LET blk == IF a.name \in DOMAIN ros /\ d \in DOMAIN ros[a.name]
             THEN ros[a.name][d] ELSE DEFAULT_DAY
  IN  << Text(a.name),
         Text(d),
         Num(IF blk.active THEN 1 ELSE 0),
         toHHMM(blk.startMin),
         toHHMM(blk.endMin),
         IF blk.breakStartMin # Undefined THEN toHHMM(blk.breakStartMin[1]) ELSE EmptyCell,
         Num(OrZero(blk.breakMins)) >>

RECURSIVE ExportLines(_, _, _, _)
ExportLines(ros, list, i, j) ==
  IF i > Len(list) THEN <<>>
  ELSE IF j > Len(WEEKDAYS) THEN ExportLines(ros, list, i + 1, 1)
  ELSE <<ExportLine(ros, list[i], WEEKDAYS[j])>> \o ExportLines(ros, list, i, j + 1)

exportCSV(ros, list) == [headers |-> NEEDED, lines |-> ExportLines(ros, list, 1, 1)]

\* headers.forEach((h, i) => (obj[h] = parts[i] || ""))
ParseLine(headers, parts) ==
  [h \in {headers[i] : i \in 1..Len(headers)} |->
     LET last == CHOOSE i \in 1..Len(headers) :
                   headers[i] = h /\ \A k \in (i + 1)..Len(headers) : headers[k] # h
     IN  IF last <= Len(parts) THEN parts[last] ELSE EmptyCell]

parseCSV(file) ==
  [headers |-> file.headers,
   rows |-> [i \in 1..Len(file.lines) |-> ParseLine(file.headers, file.lines[i])]]

\* needed.every((h) => headers.includes(h))
HeadersOk(headers) ==
  \A i \in 1..Len(NEEDED) : \E k \in 1..Len(headers) : headers[k] = NEEDED[i]

\* the string a cell is, for the agent and day columns
CellString(c) == IF c[1] = "text" THEN c[2] ELSE ToString(c)

\* toMin of onImport: undefined for "" and for text parseInt cannot read
toMin(c) ==
  IF c[1] = "time" THEN Some(Max(0, Min(23, c[2])) * 60 + Max(0, Min(59, c[3])))
  ELSE Undefined

\* parseInt(cell || "0", 10) || 0
ParseIntOrZero(c) ==
  IF c[1] = "num" THEN c[2] ELSE IF c[1] = "time" THEN c[2] ELSE 0

\* r["active"] === "1" || lower-cased and trimmed === "true"
ActiveOf(c) == c = Num(1) \/ c \in {Text("true"), Text("TRUE"), Text("True")}

\* a ?? b on an optional number
OrElse(opt, dflt) == IF opt = Undefined THEN dflt ELSE opt[1]

\* r[h]: a column the header line does not name reads as undefined, which
\* every use in onImport treats like ""
Field(r, h) == IF h \in DOMAIN r THEN r[h] ELSE EmptyCell

\* the DayBlock onImport builds from one parsed row
RowBlock(r) ==
  LET breakMins == ParseIntOrZero(Field(r, "break_minutes")) IN
    DayBlock(ActiveOf(Field(r, "active")),
             OrElse(toMin(Field(r, "start")), DEFAULT_DAY.startMin),
             OrElse(toMin(Field(r, "end")), DEFAULT_DAY.endMin),
             IF breakMins > 0 THEN toMin(Field(r, "break_start")) ELSE Undefined,
             Some(Max(0, breakMins)))

ImportRow_AlwaysPush(acc, r) ==
  LET name == CellString(Field(r, "agent"))
      day == CellString(Field(r, "day"))
  IN  IF name = "" \/ day \notin WeekdaySet THEN acc
      ELSE LET nextAgents == Append(acc.agents, Agent(name, "SA", TRUE, "junior", TRUE, "60"))
               week == IF name \in DOMAIN acc.roster THEN acc.roster[name]
                       ELSE [d \in {} |-> DEFAULT_DAY]
           IN  [agents |-> nextAgents,
                roster |-> Put(acc.roster, name, Put(week, day, RowBlock(r)))]

ImportRow_KeepBreakStart(acc, r) ==
  LET name == CellString(Field(r, "agent"))
      day == CellString(Field(r, "day"))
  IN  IF name = "" \/ day \notin WeekdaySet THEN acc
      ELSE LET nextAgents == IF HasAgent(acc.agents, name) THEN acc.agents
                             ELSE Append(acc.agents, Agent(name, "SA", TRUE, "junior", TRUE, "60"))
               week == IF name \in DOMAIN acc.roster THEN acc.roster[name]
                       ELSE [d \in {} |-> DEFAULT_DAY]
               blk == RowBlock(r)
               merged == IF day \in DOMAIN week /\ blk.breakStartMin = Undefined
                         THEN [blk EXCEPT !.breakStartMin = week[day].breakStartMin]
                         ELSE blk
           IN  [agents |-> nextAgents,
                roster |-> Put(acc.roster, name, Put(week, day, merged))]

\* the loop body of onImport for one row
ImportRow(acc, r) ==
  LET name == CellString(Field(r, "agent"))
      day == CellString(Field(r, "day"))
  IN  IF name = "" \/ day \notin WeekdaySet THEN acc
      ELSE LET nextAgents == IF HasAgent(acc.agents, name) THEN acc.agents
                             ELSE Append(acc.agents, Agent(name, "SA", TRUE, "junior", TRUE, "60"))
               week == IF name \in DOMAIN acc.roster THEN acc.roster[name]
                       ELSE [d \in {} |-> DEFAULT_DAY]
           IN  [agents |-> nextAgents,
                roster |-> Put(acc.roster, name, Put(week, day, RowBlock(r)))]

RECURSIVE ImportRows(_, _, _)
ImportRows(acc, rows, i) ==
  IF i > Len(rows) THEN acc ELSE ImportRows(ImportRow(acc, rows[i]), rows, i + 1)

\* onImport once file.text() has resolved, on the agents and roster it closed over
ImportOf(list, ros, file) ==
  LET parsed == parseCSV(file) IN
    IF ~HeadersOk(parsed.headers) THEN [agents |-> list, roster |-> ros, ok |-> FALSE]
    ELSE LET res == ImportRows([agents |-> list, roster |-> ros], parsed.rows, 1)
         IN  [agents |-> res.agents, roster |-> res.roster, ok |-> TRUE]

(***************************************************************************)
(* The application state.                                                  *)
(***************************************************************************)
VARIABLES
  tz,          \* time zone of the browser, minutes east of UTC
  agents,      \* useState<Agent[]>
  roster,      \* useState<Roster>
  vacations,   \* useState<Vacations>
  tab,         \* the tab whose content is mounted
  agentName,   \* VacationsManager: the agent picked in the form ("" when none)
  importJob,   \* <<>> or <<job>>: an onImport call waiting for file.text()
  alertMsg,    \* the alert raised by the last handler, "" when none
  lastOp,      \* the last handler that ran (removeRange: with the agent)
  selectedDate,    \* useState<string>: the date of the schedule view
  selectedDay,     \* useState<Weekday>
  ahtMin,          \* average handle time, minutes
  occupancy,       \* target occupancy, in hundredths (85 is 0.85)
  serviceBuffer,   \* extra agents per bucket
  dailyAvg,        \* weekday -> expected tickets of the day
  hourlyPctByDay,  \* weekday -> 24 hourly shares, in tenths of a percent (72 is 7.2)
  isLoadingFromCloud,  \* useRef(true): the first load has not finished
  now,             \* the time of the browser, in ms
  timer,           \* debounce: <<>> or <<t>>, the pending timeout and the payload it closed over
  inflight,        \* the PUT requests of the saver that have not been answered
  saveStatus,      \* useState: "idle", "saving", "saved" or "error"
  idleTimers,      \* due times of the pending setTimeout(() => setSaveStatus("idle"), 1200)
  saveLog,         \* history: arrival times of the snapshots handed to the saver, PUTs sent
  heap,            \* the weekday-map objects by identity: cells[id] is what object id holds
                   \* (on: identities are tracked in this behaviour)
  rosterRef,       \* agent name -> identity of the weekday map the roster object refers to
  handlerVersion,  \* which of the handler sources is deployed
  wfmToken,        \* process.env.WFM_TOKEN, "" when not set
  blobsEnv,        \* NETLIFY_SITE_ID and NETLIFY_BLOBS_TOKEN are both set
  blobs,           \* the blob store: key -> stored JSON value
  lastRequest,     \* history: the request the handler ran on last, <<>> before any
  response,        \* history: what that run of the handler ended with
  storeTrace       \* history: the calls that run made on the blobs API, in order

viewVars == <<selectedDate, selectedDay>>
forecastVars == <<ahtMin, occupancy, serviceBuffer, dailyAvg, hourlyPctByDay>>

stateVars == <<tz, agents, roster, vacations, tab, agentName, importJob, alertMsg, lastOp>>
saveVars == <<isLoadingFromCloud, now, timer, inflight, saveStatus, idleTimers, saveLog>>
heapVars == <<heap, rosterRef>>
netVars == <<handlerVersion, wfmToken, blobsEnv, blobs, lastRequest, response, storeTrace>>

vars == <<stateVars, viewVars, forecastVars, saveVars, heapVars, netVars>>

\* new Date(iso + "T00:00:00").getDay(), mapped to the weekday name; the
\* first of January of EpochYear is a Monday
weekdayNameFromISO(iso) ==
  LET map == <<"Sunday", "Monday", "Tuesday", "Wednesday", "Thursday", "Friday", "Saturday">>
  IN  map[((DayNum(iso) + 1) % 7) + 1]

\* isoToday() at the time the application is opened
Today == <<2024, 2, 29>>

HOURLY_LOAD_PCT_DEFAULT ==
  <<30, 15, 10, 8, 8, 9, 12, 20, 35, 40, 50, 60, 65, 68, 70, 72, 70, 65, 60, 50, 40, 30, 20, 15>>

MONTANA_DAILY_AVG == 650

ForecastDefaults ==
  /\ ahtMin = 6
  /\ occupancy = 85
  /\ serviceBuffer = 0
  /\ dailyAvg = [d \in WeekdaySet |-> MONTANA_DAILY_AVG]
  /\ hourlyPctByDay = [d \in WeekdaySet |-> HOURLY_LOAD_PCT_DEFAULT]

(***************************************************************************)
(* The debounced saver.                                                    *)
(***************************************************************************)
DEBOUNCE_MS == 800
IDLE_MS == 1200

\* the payload the save effect builds from the state of the render
Payload ==
  [agents |-> agents, roster |-> roster, dailyAvg |-> dailyAvg,
   hourlyPctByDay |-> hourlyPctByDay, ahtMin |-> ahtMin, occupancy |-> occupancy,
   serviceBuffer |-> serviceBuffer, selectedDate |-> selectedDate,
   selectedDay |-> selectedDay, vacations |-> vacations,
   brand |-> "Montana", version |-> 1, savedAt |-> now]

\* what the history keeps of a snapshot handed to the saver
Handed(p) == [at |-> now, payload |-> p]

Debounced_KeepPending(p) ==
  /\ timer' = IF timer # <<>> THEN timer
              ELSE <<[due |-> now + DEBOUNCE_MS, payload |-> p,
                      serial |-> IF saveLog.on THEN Len(saveLog.handed) + 1 ELSE 0]>>
  /\ saveLog' = IF saveLog.on THEN [saveLog EXCEPT !.handed = Append(@, Handed(p))] ELSE saveLog

\* the function debounce returns, called with payload p: the pending timeout
\* is cleared and a new one is set.  The history numbers the snapshots in the
\* order they arrive (0 where no history is kept).
Debounced(p) ==
  /\ timer' = <<[due |-> now + DEBOUNCE_MS, payload |-> p,
                 serial |-> IF saveLog.on THEN Len(saveLog.handed) + 1 ELSE 0]>>
  /\ saveLog' = IF saveLog.on THEN [saveLog EXCEPT !.handed = Append(@, Handed(p))] ELSE saveLog

SaveEffect_NoLoadingCheck ==
  /\ UNCHANGED <<isLoadingFromCloud, now, inflight, saveStatus, idleTimers>>
  /\ Debounced(Payload')

\* the save effect, run after a render in which one of its dependencies changed
SaveEffect ==
  /\ UNCHANGED <<isLoadingFromCloud, now, inflight, saveStatus, idleTimers>>
  /\ IF isLoadingFromCloud THEN UNCHANGED <<timer, saveLog>> ELSE Debounced(Payload')

\* no dependency of the save effect changed: the effect does not run
SaveIdle == UNCHANGED saveVars

SaveAfter(changed) == IF changed THEN SaveEffect ELSE SaveIdle

\* the saver right after the mount: the first load is still under way
SaverMounted ==
  /\ isLoadingFromCloud = TRUE
  /\ now = 0
  /\ timer = <<>>
  /\ inflight = <<>>
  /\ saveStatus = "idle"
  /\ idleTimers = {}
  /\ saveLog = [on |-> FALSE, handed |-> <<>>, puts |-> <<>>]

\* the saver once the first load has finished and its snapshot has been saved
SaverLoaded ==
  /\ isLoadingFromCloud = FALSE
  /\ now = 0
  /\ timer = <<>>
  /\ inflight = <<>>
  /\ saveStatus = "idle"
  /\ idleTimers = {}
  /\ saveLog = [on |-> FALSE, handed |-> <<>>, puts |-> <<>>]

\* no week object is tracked by identity
NoHeap == heap = [on |-> FALSE, cells |-> <<>>] /\ rosterRef = [n \in {} |-> 0]

\* the elements of a finite set, in some fixed order
SeqOf(set) ==
  CHOOSE q \in [1..Cardinality(set) -> set] : \A i, j \in DOMAIN q : i # j => q[i] # q[j]

IndexIn(q, x) == CHOOSE i \in DOMAIN q : q[i] = x

\* the new roster object refers to a newly created weekday map for the agents
\* of fresh and to the weekday maps of the old roster object for the others
HeapFresh(fresh) ==
  IF ~heap.on THEN UNCHANGED heapVars
  ELSE LET order == SeqOf(fresh \cap DOMAIN roster') IN
         /\ heap' = [heap EXCEPT !.cells = @ \o [i \in DOMAIN order |-> roster'[order[i]]]]
         /\ rosterRef' = [n \in DOMAIN roster' |->
                            IF n \in fresh THEN Len(heap.cells) + IndexIn(order, n)
                            ELSE rosterRef[n]]

\* onImport: nextRoster = { ...roster } refers to the weekday maps of the
\* roster object ref it closed over, and nextRoster[name][day] = ... writes
\* into them; only agents the roster did not have get a new weekday map
HeapImport(ref) ==
  IF ~heap.on THEN UNCHANGED heapVars
  ELSE LET order == SeqOf(DOMAIN roster' \ DOMAIN ref) IN
         /\ heap' = [heap EXCEPT !.cells =
                       [id \in DOMAIN @ |->
                          IF \E n \in DOMAIN ref : ref[n] = id
                          THEN roster'[CHOOSE n \in DOMAIN ref : ref[n] = id]
                          ELSE @[id]]
                       \o [i \in DOMAIN order |-> roster'[order[i]]]]
         /\ rosterRef' = [n \in DOMAIN roster' |->
                            IF n \in DOMAIN ref THEN ref[n]
                            ELSE Len(heap.cells) + IndexIn(order, n)]

\* the schedule function has not been called
NoRequests ==
  /\ handlerVersion = 1
  /\ wfmToken = ""
  /\ blobsEnv = TRUE
  /\ blobs = [k \in {} |-> <<"null">>]
  /\ lastRequest = <<>>
  /\ response = <<>>
  /\ storeTrace = <<>>

FirstDay == DayNum(<<2024, 2, 28>>)

\* the dates the date inputs of the vacation form are set to
VacDates == {FromDayNum(FirstDay + i) : i \in 0..(NumDays - 1)}

\* what the add-agent form holds: level, Friday switch, break preference
AgentForms == {<<"senior", FALSE, "none">>}

\* one data line in the column order of NEEDED
CsvLine(agent, day, active, start, end, breakStart, breakMinutes) ==
  <<Text(agent), Text(day), active, start, end, breakStart, breakMinutes>>

\* CSV files offered to the import: a one-line roster for agent a; a file
\* for agent b with a line without agent and a line with an unknown day;
\* a file whose header lacks the break_minutes column
CsvFiles ==
  { [headers |-> NEEDED,
     lines |-> <<CsvLine("a", "Monday", Num(1), Time(8, 0), Time(16, 0), EmptyCell, Num(0))>>],
    [headers |-> NEEDED,
     lines |-> <<CsvLine("b", "Friday", Num(0), Time(9, 0), Time(17, 0), Time(12, 0), Num(30)),
                 CsvLine("", "Monday", Num(1), Time(9, 0), Time(17, 0), Time(13, 0), Num(60)),
                 CsvLine("b", "Funday", Num(1), Time(9, 0), Time(17, 0), Time(13, 0), Num(60))>>],
    [headers |-> SubSeq(NEEDED, 1, 6),
     lines |-> <<CsvLine("b", "Monday", Num(1), Time(9, 0), Time(17, 0), Time(13, 0), Num(60))>>] }

Init ==
  /\ tz \in TimeZones
  /\ agents = <<>>
  /\ roster = NoRoster
  /\ vacations = NoVacations
  /\ tab = "schedule"
  /\ agentName = ""
  /\ importJob = <<>>
  /\ alertMsg = ""
  /\ lastOp = <<"mount">>
  /\ selectedDate = Today
  /\ selectedDay = weekdayNameFromISO(Today)
  /\ ForecastDefaults
  /\ SaverMounted
  /\ NoHeap
  /\ NoRequests

\* TabsTrigger click: the content of the other tabs is unmounted, and a
\* VacationsManager that mounts starts with agents[0]?.name ?? ""
SwitchTab(t) ==
  /\ t # tab
  /\ tab' = t
  /\ agentName' = IF t = "vacations" /\ Len(agents) > 0 THEN agents[1].name ELSE ""
  /\ alertMsg' = ""
  /\ lastOp' = <<"switchTab">>
  /\ UNCHANGED <<tz, agents, roster, vacations, importJob>>
  /\ UNCHANGED <<viewVars, forecastVars>>
  /\ UNCHANGED <<heapVars, netVars>>
  /\ SaveIdle

\* Select of the vacation form: one SelectItem per agent of the list
SelectAgent(n) ==
  /\ tab = "vacations"
  /\ HasAgent(agents, n)
  /\ agentName' = n
  /\ alertMsg' = ""
  /\ lastOp' = <<"selectAgent">>
  /\ UNCHANGED <<tz, agents, roster, vacations, tab, importJob>>
  /\ UNCHANGED <<viewVars, forecastVars>>
  /\ UNCHANGED <<heapVars, netVars>>
  /\ SaveIdle

addVacationRange_NoValidation(start, end) ==
  /\ tab = "vacations"
  /\ IF agentName = ""
     THEN UNCHANGED vacations /\ alertMsg' = ""
     ELSE /\ vacations' = Put(vacations, agentName,
                 mergeRanges(Append(RangesOf(vacations, agentName),
                                    [start |-> start, end |-> end]), tz))
          /\ alertMsg' = ""
  /\ lastOp' = <<"addVacationRange">>
  /\ UNCHANGED <<tz, agents, roster, tab, agentName, importJob>>
  /\ UNCHANGED <<viewVars, forecastVars>>
  /\ UNCHANGED <<heapVars, netVars>>
  /\ SaveAfter(agentName # "")

addVacationRange(start, end) ==
  /\ tab = "vacations"
  /\ IF agentName = ""
     THEN UNCHANGED vacations /\ alertMsg' = ""
     ELSE IF compareISO(start, end) > 0
     THEN alertMsg' = "End date must be on or after start date." /\ UNCHANGED vacations
     ELSE /\ vacations' = Put(vacations, agentName,
                 mergeRanges(Append(RangesOf(vacations, agentName),
                                    [start |-> start, end |-> end]), tz))
          /\ alertMsg' = ""
  /\ lastOp' = <<"addVacationRange">>
  /\ UNCHANGED <<tz, agents, roster, tab, agentName, importJob>>
  /\ UNCHANGED <<viewVars, forecastVars>>
  /\ UNCHANGED <<heapVars, netVars>>
  /\ SaveAfter(agentName # "" /\ compareISO(start, end) <= 0)

\* list.splice(idx, 1), idx counted from 0
Splice1(list, idx) == SubSeq(list, 1, idx) \o SubSeq(list, idx + 2, Len(list))

removeRange_KeepEmpty(name, idx) ==
  /\ tab = "vacations"
  /\ name \in DOMAIN vacations
  /\ idx \in 0..(Len(vacations[name]) - 1)
  /\ vacations' = Put(vacations, name, Splice1(vacations[name], idx))
  /\ alertMsg' = ""
  /\ lastOp' = <<"removeRange", name>>
  /\ UNCHANGED <<tz, agents, roster, tab, agentName, importJob>>
  /\ UNCHANGED <<viewVars, forecastVars>>
  /\ UNCHANGED <<heapVars, netVars>>
  /\ SaveEffect

\* the remove button of range idx in the row of agent name
removeRange(name, idx) ==
  /\ tab = "vacations"
  /\ name \in DOMAIN vacations
  /\ idx \in 0..(Len(vacations[name]) - 1)
  /\ LET list == Splice1(vacations[name], idx) IN
       vacations' = IF Len(list) = 0 THEN Delete(vacations, name)
                    ELSE Put(vacations, name, list)
  /\ alertMsg' = ""
  /\ lastOp' = <<"removeRange", name>>
  /\ UNCHANGED <<tz, agents, roster, tab, agentName, importJob>>
  /\ UNCHANGED <<viewVars, forecastVars>>
  /\ UNCHANGED <<heapVars, netVars>>
  /\ SaveEffect

\* the "Clear all" button in the row of agent name
clearAgent(name) ==
  /\ tab = "vacations"
  /\ name \in DOMAIN vacations
  /\ vacations' = Delete(vacations, name)
  /\ alertMsg' = ""
  /\ lastOp' = <<"clearAgent">>
  /\ UNCHANGED <<tz, agents, roster, tab, agentName, importJob>>
  /\ UNCHANGED <<viewVars, forecastVars>>
  /\ UNCHANGED <<heapVars, netVars>>
  /\ SaveEffect

addAgent(newName, form) ==
  /\ tab = "schedule"
  /\ IF newName = ""
     THEN UNCHANGED <<agents, roster>> /\ alertMsg' = ""
     ELSE IF HasAgent(agents, newName)
     THEN UNCHANGED <<agents, roster>> /\ alertMsg' = "Agent with this name already exists."
     ELSE /\ agents' = Append(agents, Agent(newName, "SA", TRUE, form[1], form[2], form[3]))
          /\ roster' = Put(roster, newName, DefaultWeek(form[2], form[3]))
          /\ alertMsg' = ""
  /\ lastOp' = <<"addAgent">>
  /\ UNCHANGED <<tz, vacations, tab, agentName, importJob>>
  /\ UNCHANGED <<viewVars, forecastVars>>
  /\ UNCHANGED netVars
  /\ IF agents' # agents THEN HeapFresh({newName}) ELSE UNCHANGED heapVars
  /\ SaveAfter(agents' # agents)

\* the trash button of an agent of the list; confirmed is the answer to confirm()
removeAgent(name, confirmed) ==
  /\ tab = "schedule"
  /\ HasAgent(agents, name)
  /\ IF ~confirmed
     THEN UNCHANGED <<agents, roster, vacations>>
     ELSE /\ agents' = FilterOutName(agents, name)
          /\ roster' = Delete(roster, name)
          /\ vacations' = Delete(vacations, name)
  /\ alertMsg' = ""
  /\ lastOp' = <<"removeAgent">>
  /\ UNCHANGED <<tz, tab, agentName, importJob>>
  /\ UNCHANGED <<viewVars, forecastVars>>
  /\ UNCHANGED netVars
  /\ IF confirmed THEN HeapFresh({}) ELSE UNCHANGED heapVars
  /\ SaveAfter(confirmed)

\* onImport up to "await file.text()": the call keeps the agents and roster
\* of the render it was created in
ImportStart(file) ==
  /\ importJob = <<>>
  /\ importJob' = <<[agents |-> agents, roster |-> roster, ref |-> rosterRef, file |-> file]>>
  /\ alertMsg' = ""
  /\ lastOp' = <<"importStart">>
  /\ UNCHANGED <<tz, agents, roster, vacations, tab, agentName>>
  /\ UNCHANGED <<viewVars, forecastVars>>
  /\ UNCHANGED <<heapVars, netVars>>
  /\ SaveIdle

\* onImport after the file has been read
ImportFinish ==
  /\ importJob # <<>>
  /\ LET job == importJob[1]
         res == ImportOf(job.agents, job.roster, job.file)
     IN  IF ~res.ok
         THEN UNCHANGED <<agents, roster>>
              /\ alertMsg' = "CSV headers must be: agent, day, active, start, end, break_start, break_minutes"
         ELSE agents' = res.agents /\ roster' = res.roster /\ alertMsg' = ""
  /\ importJob' = <<>>
  /\ lastOp' = <<"importFinish">>
  /\ UNCHANGED <<tz, vacations, tab, agentName>>
  /\ UNCHANGED <<viewVars, forecastVars>>
  /\ UNCHANGED netVars
  /\ IF alertMsg' = "" THEN HeapImport(importJob[1].ref) ELSE UNCHANGED heapVars
  /\ SaveAfter(alertMsg' = "")

\* the vacation store and the agent list, no import in flight
Next ==
  \/ \E t \in {"schedule", "forecast", "vacations"} : SwitchTab(t)
  \/ \E n \in Names : SelectAgent(n)
  \/ \E s \in VacDates, e \in VacDates : addVacationRange(s, e)
  \/ \E n \in Names, i \in 0..(NumDays - 1) : removeRange(n, i)
  \/ \E n \in Names : clearAgent(n)
  \/ \E n \in Names \cup {""}, f \in AgentForms : addAgent(n, f)
  \/ \E n \in Names, c \in BOOLEAN : removeAgent(n, c)

Spec == Init /\ [][Next]_vars

\* the same handlers with CSV imports; the vacation form keeps one date
NextImport ==
  \/ \E t \in {"schedule", "forecast", "vacations"} : SwitchTab(t)
  \/ \E n \in Names : SelectAgent(n)
  \/ addVacationRange(FromDayNum(FirstDay), FromDayNum(FirstDay))
  \/ \E n \in Names : removeRange(n, 0)
  \/ \E n \in Names : clearAgent(n)
  \/ \E n \in Names \cup {""}, f \in AgentForms : addAgent(n, f)
  \/ \E n \in Names, c \in BOOLEAN : removeAgent(n, c)
  \/ \E f \in CsvFiles : ImportStart(f)
  \/ ImportFinish

SpecImport == Init /\ [][NextImport]_vars


\* two ranges added one after the other for one agent, on the dates
\* 2024-06-05 .. 2024-06-15; the state is the one after addAgent("a") and
\* the switch to the vacations tab
MergeDates == {<<2024, 6, d>> : d \in 5..15}

InitMerge ==
  /\ tz \in TimeZones
  /\ agents = <<Agent("a", "SA", TRUE, "senior", FALSE, "none")>>
  /\ roster = Put(NoRoster, "a", DefaultWeek(FALSE, "none"))
  /\ vacations = NoVacations
  /\ tab = "vacations"
  /\ agentName = "a"
  /\ importJob = <<>>
  /\ alertMsg = ""
  /\ lastOp = <<"switchTab">>
  /\ selectedDate = Today
  /\ selectedDay = weekdayNameFromISO(Today)
  /\ ForecastDefaults
  /\ SaverMounted
  /\ NoHeap
  /\ NoRequests

NextMerge ==
  \E s \in MergeDates, e \in MergeDates :
    /\ Len(RangesOf(vacations, agentName)) < 2
    /\ addVacationRange(s, e)

SpecMerge == InitMerge /\ [][NextMerge]_vars

(***************************************************************************)
(* The schedule view: coverage of the selected day.                        *)
(***************************************************************************)
\* useMemo(() => halfHourCoverage(roster, agents, selectedDay, selectedDate, vacations))
coverage48 == halfHourCoverage(roster, agents, selectedDay, selectedDate, vacations)

\* the date input of the header; the effect on selectedDate then sets
\* selectedDay to the weekday of the new date
pickDate(d) ==
  /\ d # selectedDate
  /\ selectedDate' = d
  /\ selectedDay' = weekdayNameFromISO(d)
  /\ alertMsg' = ""
  /\ lastOp' = <<"pickDate">>
  /\ UNCHANGED <<tz, agents, roster, vacations, tab, agentName, importJob, forecastVars>>
  /\ UNCHANGED <<heapVars, netVars>>
  /\ SaveEffect

\* a button of the quick day picker
pickDay(d) ==
  /\ selectedDay' = d
  /\ alertMsg' = ""
  /\ lastOp' = <<"pickDay">>
  /\ UNCHANGED <<tz, agents, roster, vacations, tab, agentName, importJob, selectedDate,
                 forecastVars>>
  /\ UNCHANGED <<heapVars, netVars>>
  /\ SaveAfter(d # selectedDay)

\* start and end, break start and break minutes of the blocks of the rosters
\* the coverage is computed for
CovTimes == {<<9 * 60, 17 * 60>>, <<17 * 60, 9 * 60>>, <<10 * 60, 10 * 60>>, <<795, 810>>}
CovBreaks == {<<Undefined, Some(0)>>, <<Some(13 * 60), Some(60)>>, <<Undefined, Some(15)>>}

CovBlocks ==
  {DayBlock(act, t[1], t[2], b[1], b[2]) : act \in BOOLEAN, t \in CovTimes, b \in CovBreaks}

\* the entry of an agent a CSV with Friday rows created: a week with a
\* Friday block and no other day
CovWeeks == {[d \in {"Friday"} |-> blk] : blk \in CovBlocks}

CovDates == {<<2024, 2, 29>>, <<2024, 3, 1>>}

CovAgentLists ==
  LET ag(n) == Agent(n, "SA", TRUE, "junior", TRUE, "60")
  IN  {<<ag("a")>>, <<ag("a"), ag("b")>>, <<ag("b"), ag("a")>>}

CovRangeLists ==
  {<<[start |-> <<2024, 3, 1>>, end |-> <<2024, 3, 1>>]>>,
   <<[start |-> <<2024, 2, 28>>, end |-> <<2024, 3, 2>>]>>}

InitCov ==
  /\ tz \in TimeZones
  /\ agents \in CovAgentLists
  /\ roster \in [AgentNames(agents) -> CovWeeks]
  /\ \E keys \in SUBSET AgentNames(agents) : vacations \in [keys -> CovRangeLists]
  /\ tab = "schedule"
  /\ agentName = ""
  /\ importJob = <<>>
  /\ alertMsg = ""
  /\ lastOp = <<"mount">>
  /\ selectedDate = Today
  /\ selectedDay = weekdayNameFromISO(Today)
  /\ ForecastDefaults
  /\ SaverMounted
  /\ NoHeap
  /\ NoRequests

NextCov ==
  \/ \E d \in CovDates : pickDate(d)
  \/ \E d \in WeekdaySet : pickDay(d)

SpecCov == InitCov /\ [][NextCov]_vars

(***************************************************************************)
(* Demand and requirement engine.  Shares, volumes and ratios are exact    *)
(* fractions <<numerator, denominator>> with a positive denominator.       *)
(***************************************************************************)
RECURSIVE GCD(_, _)
GCD(a, b) == IF b = 0 THEN a ELSE GCD(b, a % b)

Abs(a) == IF a < 0 THEN 0 - a ELSE a

Frac(n, d) ==
  LET g == GCD(Abs(n), d) IN IF n = 0 THEN <<0, 1>> ELSE <<n \div g, d \div g>>

FracAdd(x, y) == Frac(x[1] * y[2] + y[1] * x[2], x[2] * y[2])
FracMul(x, y) == Frac(x[1] * y[1], x[2] * y[2])
\* x / y for y > 0
FracDiv(x, y) == Frac(x[1] * y[2], x[2] * y[1])
FracMax(x, y) == IF x[1] * y[2] >= y[1] * x[2] THEN x ELSE y
\* Math.ceil
FracCeil(x) == 0 - ((0 - x[1]) \div x[2])

\* arr.flatMap((v) => [v / 2, v / 2]), the hourly shares being tenths of a percent
loadPct48Of(arr) == [k \in Buckets |-> Frac(arr[(k \div 2) + 1], 20)]

\* loadPct48.reduce((a, b) => a + b, 0): the fold from the left; a sum that
\* is not a number stays so
RECURSIVE Reduce(_, _, _)
Reduce(f, k, acc) ==
  IF k >= halfHourBuckets \/ acc[2] = 0 THEN acc
  ELSE Reduce(f, k + 1, FracAdd(acc, f[k]))

\* loadPct48.reduce((a, b) => a + b, 0) || 1
LoadSum(pct48) ==
  LET total == Reduce(pct48, 0, <<0, 1>>) IN IF total[1] = 0 THEN <<1, 1>> ELSE total

demand48Of(pct48, basePerDay) ==
  LET total == LoadSum(pct48)
  IN  [k \in Buckets |-> FracMul(<<basePerDay, 1>>, FracDiv(pct48[k], total))]

required48Of_BufferDropped(demand, aht, occ, buffer) ==
  [k \in Buckets |->
     FracCeil(FracDiv(FracMul(demand[k], <<aht, 1>>),
                      FracMax(<<1, 10>>, FracMul(<<30, 1>>, Frac(occ, 100)))))]

required48Of(demand, aht, occ, buffer) ==
  [k \in Buckets |->
     FracCeil(FracDiv(FracMul(demand[k], <<aht, 1>>),
                      FracMax(<<1, 10>>, FracMul(<<30, 1>>, Frac(occ, 100)))))
       + buffer]

\* hourlyPctByDay[selectedDay] || HOURLY_LOAD_PCT_DEFAULT
loadPct48 ==
  loadPct48Of(IF selectedDay \in DOMAIN hourlyPctByDay THEN hourlyPctByDay[selectedDay]
              ELSE HOURLY_LOAD_PCT_DEFAULT)
\* dailyAvg[selectedDay] ?? MONTANA_DAILY_AVG
demand48 ==
  demand48Of(loadPct48, IF selectedDay \in DOMAIN dailyAvg THEN dailyAvg[selectedDay]
                        ELSE MONTANA_DAILY_AVG)
required48 == required48Of(demand48, ahtMin, occupancy, serviceBuffer)

\* the largest buffer typed into the buffer input
MaxBuffer == 2

\* the buffer input of the forecast tab
setServiceBuffer(v) ==
  /\ tab = "forecast"
  /\ serviceBuffer' = v
  /\ alertMsg' = ""
  /\ lastOp' = <<"setServiceBuffer">>
  /\ UNCHANGED <<tz, agents, roster, vacations, tab, agentName, importJob, viewVars,
                 ahtMin, occupancy, dailyAvg, hourlyPctByDay>>
  /\ UNCHANGED <<heapVars, netVars>>
  /\ SaveAfter(v # serviceBuffer)

\* the AHT input of the forecast tab
setAhtMin(v) ==
  /\ tab = "forecast"
  /\ ahtMin' = v
  /\ alertMsg' = ""
  /\ lastOp' = <<"setAhtMin">>
  /\ UNCHANGED <<tz, agents, roster, vacations, tab, agentName, importJob, viewVars,
                 occupancy, serviceBuffer, dailyAvg, hourlyPctByDay>>
  /\ UNCHANGED <<heapVars, netVars>>
  /\ SaveAfter(v # ahtMin)

\* the occupancy slider of the forecast tab: v / 100
setOccupancy(v) ==
  /\ tab = "forecast"
  /\ occupancy' = v
  /\ alertMsg' = ""
  /\ lastOp' = <<"setOccupancy">>
  /\ UNCHANGED <<tz, agents, roster, vacations, tab, agentName, importJob, viewVars,
                 ahtMin, serviceBuffer, dailyAvg, hourlyPctByDay>>
  /\ UNCHANGED <<heapVars, netVars>>
  /\ SaveAfter(v # occupancy)

\* hourly profiles: the default one, one without any load, a uniform one
\* and one with a single loaded hour
ReqProfiles ==
  {HOURLY_LOAD_PCT_DEFAULT,
   [h \in 1..24 |-> 0],
   [h \in 1..24 |-> 10],
   [h \in 1..24 |-> IF h = 16 THEN 5 ELSE 0]}

ReqDailyAvgs == {0, 480, MONTANA_DAILY_AVG}
ReqAhts == {1, 6}
\* the ends of the slider, the default, and 0 as a stored snapshot can hold it
ReqOccupancies == {0, 50, 85, 95}

\* the forecast tab with the forecast state of a loaded snapshot
InitReq ==
  /\ tz = 180
  /\ agents = <<>>
  /\ roster = NoRoster
  /\ vacations = NoVacations
  /\ tab = "forecast"
  /\ agentName = ""
  /\ importJob = <<>>
  /\ alertMsg = ""
  /\ lastOp = <<"mount">>
  /\ selectedDate = Today
  /\ selectedDay = weekdayNameFromISO(Today)
  /\ ahtMin = 6
  /\ occupancy \in ReqOccupancies
  /\ serviceBuffer = 0
  /\ \E fri \in ReqDailyAvgs, other \in ReqDailyAvgs :
       dailyAvg = [d \in WeekdaySet |-> IF d = "Friday" THEN fri ELSE other]
  /\ \E prof \in ReqProfiles :
       hourlyPctByDay = [d \in WeekdaySet |-> prof]
  /\ SaverLoaded
  /\ NoHeap
  /\ NoRequests

NextReq ==
  \/ \E v \in 0..MaxBuffer : setServiceBuffer(v)
  \/ \E v \in ReqAhts : setAhtMin(v)
  \/ \E v \in {50, 85, 95} : setOccupancy(v)
  \/ \E d \in {"Thursday", "Friday"} : pickDay(d)

SpecReq == InitReq /\ [][NextReq]_vars

(***************************************************************************)
(* The schedule rows: one row per listed agent that is not on vacation on  *)
(* the selected date; its inputs edit the block of the selected weekday.   *)
(***************************************************************************)
clamp(v, lo, hi) == Max(lo, Min(hi, v))

\* blk of a row: roster[a.name]?.[selectedDay] ?? DEFAULT_DAY
RowBlk(name) ==
  IF name \in DOMAIN roster /\ selectedDay \in DOMAIN roster[name]
  THEN roster[name][selectedDay] ELSE DEFAULT_DAY

\* the row of the agent is rendered (level filter "all")
RowShown(name) ==
  /\ tab = "schedule"
  /\ HasAgent(agents, name)
  /\ ~isAgentOnVacation(name, selectedDate, vacations)

\* setRoster((p) => ({ ...p, [a.name]: { ...(p[a.name] || {}), [selectedDay]: blk } }))
WriteBlk(name, blk, op) ==
  /\ roster' = Put(roster, name,
                   Put(IF name \in DOMAIN roster THEN roster[name]
                       ELSE [d \in {} |-> DEFAULT_DAY],
                       selectedDay, blk))
  /\ alertMsg' = ""
  /\ lastOp' = <<op>>
  /\ UNCHANGED <<tz, agents, vacations, tab, agentName, importJob>>
  /\ UNCHANGED <<viewVars, forecastVars>>
  /\ UNCHANGED netVars
  /\ HeapFresh({name})
  /\ SaveEffect

\* the Switch of a row
toggleActive(name, checked) ==
  /\ RowShown(name)
  /\ WriteBlk(name, [RowBlk(name) EXCEPT !.active = checked], "toggleActive")

\* TimeInput: the hours field (part "hh") or the minutes field (part "mm")
\* is set to v while the input shows value
TimeInput(value, part, v) ==
  IF part = "hh" THEN clamp(v, 0, 23) * 60 + (value % 60)
  ELSE (value \div 60) * 60 + clamp(v, 0, 59)

setStartMin(name, part, v) ==
  /\ RowShown(name)
  /\ RowBlk(name).active
  /\ WriteBlk(name, [RowBlk(name) EXCEPT !.startMin = TimeInput(@, part, v)], "setStartMin")

setEndMin(name, part, v) ==
  /\ RowShown(name)
  /\ RowBlk(name).active
  /\ WriteBlk(name, [RowBlk(name) EXCEPT !.endMin = TimeInput(@, part, v)], "setEndMin")

setBreakStartMin(name, part, v) ==
  /\ RowShown(name)
  /\ RowBlk(name).active
  /\ WriteBlk(name,
              [RowBlk(name) EXCEPT
                 !.breakStartMin = Some(TimeInput(OrElse(@, 13 * 60), part, v))],
              "setBreakStartMin")

\* the minus button of the break minutes
breakMinus(name) ==
  /\ RowShown(name)
  /\ RowBlk(name).active
  /\ WriteBlk(name,
              [RowBlk(name) EXCEPT !.breakMins = Some(Max(0, OrZero(@) - 15))],
              "breakMinus")

\* the plus button of the break minutes
breakPlus(name) ==
  /\ RowShown(name)
  /\ RowBlk(name).active
  /\ WriteBlk(name,
              [RowBlk(name) EXCEPT !.breakMins = Some(Min(180, OrZero(@) + 15))],
              "breakPlus")

\* the number input of the break minutes: parseInt(value || "0", 10)
setBreakMins(name, v) ==
  /\ RowShown(name)
  /\ RowBlk(name).active
  /\ WriteBlk(name, [RowBlk(name) EXCEPT !.breakMins = Some(v)], "setBreakMins")

RECURSIVE AutoPlanLoop(_, _, _)
AutoPlanLoop(next, list, i) ==
  IF i > Len(list) THEN next
  ELSE AutoPlanLoop(Put(next, list[i].name,
                        DefaultWeek(list[i].fridayAllowed, list[i].breakPref)),
                    list, i + 1)

\* the "Auto plan" button of the header
autoPlan ==
  /\ roster' = AutoPlanLoop(roster, agents, 1)
  /\ alertMsg' = ""
  /\ lastOp' = <<"autoPlan">>
  /\ UNCHANGED <<tz, agents, vacations, tab, agentName, importJob>>
  /\ UNCHANGED <<viewVars, forecastVars>>
  /\ UNCHANGED netVars
  /\ HeapFresh(AgentNames(agents))
  /\ SaveEffect

\* onImport of a file whose text is read before anything else happens
importFile_NoHeaderCheck(file) ==
  /\ importJob = <<>>
  /\ LET res == ImportRows([agents |-> agents, roster |-> roster], parseCSV(file).rows, 1)
     IN  agents' = res.agents /\ roster' = res.roster /\ alertMsg' = ""
  /\ lastOp' = <<"importFile", HeadersOk(file.headers)>>
  /\ UNCHANGED <<tz, vacations, tab, agentName, importJob>>
  /\ UNCHANGED <<viewVars, forecastVars>>
  /\ UNCHANGED netVars
  /\ HeapImport(rosterRef)
  /\ SaveEffect

importFile(file) ==
  /\ importJob = <<>>
  /\ LET res == ImportOf(agents, roster, file)
     IN  IF ~res.ok
         THEN UNCHANGED <<agents, roster>>
              /\ alertMsg' = "CSV headers must be: agent, day, active, start, end, break_start, break_minutes"
         ELSE agents' = res.agents /\ roster' = res.roster /\ alertMsg' = ""
  /\ lastOp' = <<"importFile", HeadersOk(file.headers)>>
  /\ UNCHANGED <<tz, vacations, tab, agentName, importJob>>
  /\ UNCHANGED <<viewVars, forecastVars>>
  /\ UNCHANGED netVars
  /\ IF alertMsg' = "" THEN HeapImport(rosterRef) ELSE UNCHANGED heapVars
  /\ SaveAfter(alertMsg' = "")

\* what the add-agent form holds in the schedule-editing specification
EditForms == AgentForms \cup {<<"junior", TRUE, "60">>}

\* values typed into the hours and minutes fields: in range and out of range
EditHours == {8, 30}
EditMinutes == {75}
\* values typed into the break minutes input
EditBreakMins == {0 - 15, 45}

\* one line with break minutes and no break start
EditLines ==
  <<CsvLine("a", "Thursday", Text("true"), Time(8, 0), Num(16), EmptyCell, Num(30))>>

\* the header line without its i-th column
HeaderWithout(i) == SubSeq(NEEDED, 1, i - 1) \o SubSeq(NEEDED, i + 1, Len(NEEDED))

\* files offered to the import: one with the full header line, and one for
\* each required column with that column missing
EditFiles ==
  {[headers |-> NEEDED, lines |-> EditLines]} \cup
  {[headers |-> HeaderWithout(i), lines |-> EditLines] : i \in 1..Len(NEEDED)}

NextEdit ==
  \/ \E f \in EditForms : addAgent("a", f)
  \/ \E c \in BOOLEAN : removeAgent("a", c)
  \/ \E c \in BOOLEAN : toggleActive("a", c)
  \/ \E v \in {30} : setStartMin("a", "hh", v)
  \/ \E v \in EditMinutes : setEndMin("a", "mm", v)
  \/ \E v \in {12} : setBreakStartMin("a", "hh", v)
  \/ breakMinus("a")
  \/ breakPlus("a")
  \/ \E v \in EditBreakMins : setBreakMins("a", v)
  \/ autoPlan
  \/ \E f \in EditFiles : importFile(f)
  \/ importFile(exportCSV(roster, agents))

SpecEdit == Init /\ [][NextEdit]_vars

(***************************************************************************)
(* The roster seen at the level of object identities: which weekday-map    *)
(* objects a roster object refers to, and what each of them holds.         *)
(***************************************************************************)
\* weekday-map objects created in one behaviour, at most
MaxObjects == 3

InitAlias ==
  /\ tz \in TimeZones
  /\ agents = <<>>
  /\ roster = NoRoster
  /\ vacations = NoVacations
  /\ tab = "schedule"
  /\ agentName = ""
  /\ importJob = <<>>
  /\ alertMsg = ""
  /\ lastOp = <<"mount">>
  /\ selectedDate = Today
  /\ selectedDay = weekdayNameFromISO(Today)
  /\ ForecastDefaults
  /\ SaverMounted
  /\ heap = [on |-> TRUE, cells |-> <<>>]
  /\ rosterRef = [n \in {} |-> 0]
  /\ NoRequests

\* one more weekday map can be created
HeapRoom == Len(heap.cells) < MaxObjects

\* what a reference to the current roster object reads, weekday maps included
Deref(ref, h) == [n \in DOMAIN ref |-> h.cells[ref[n]]]

NextAlias ==
  \/ HeapRoom /\ \E f \in EditForms : addAgent("a", f)
  \/ removeAgent("a", TRUE)
  \/ HeapRoom /\ \E c \in BOOLEAN : toggleActive("a", c)
  \/ HeapRoom /\ breakPlus("a")
  \/ HeapRoom /\ \E f \in EditFiles : importFile(f)
  \/ HeapRoom /\ importFile(exportCSV(roster, agents))

SpecAlias == InitAlias /\ [][NextAlias]_vars

(***************************************************************************)
(* The schedule function (Netlify).  The repository holds four sources of  *)
(* the handler; which one is deployed is not fixed by the repository:      *)
(*   1  getStore before the try, write-token check         (first handler  *)
(*      of the unnamed source file)                                        *)
(*   2  getStore before the try          (first handler of schedule.ts)    *)
(*   3  getStore inside the try          (second handler of schedule.ts)   *)
(*   4  blobs configuration checked, getStore inside the try (second       *)
(*      handler of the unnamed source file)                                *)
(* A call on the blobs API either succeeds or throws without effect.       *)
(***************************************************************************)
HandlerVersions == 1..4

corsHeaders ==
  { <<"Access-Control-Allow-Origin", "*">>,
    <<"Access-Control-Allow-Methods", "GET,PUT,OPTIONS">>,
    <<"Access-Control-Allow-Headers", "Content-Type,x-wfm-token">> }

Response(statusCode, headers, body) ==
  [statusCode |-> statusCode, headers |-> headers, body |-> body]

\* the handler threw: it ended without a response of its own
Unhandled == Response(0, {}, "unhandled error")

\* what a run of the handler leaves: its response, the store, its blobs calls
Outcome(resp, store, trace) == [response |-> resp, blobs |-> store, trace |-> trace]

\* event.httpMethod || "GET"
MethodOf(req) == IF req.method = "" THEN "GET" ELSE req.method

\* `${workspace}.json` with workspace = queryStringParameters?.workspace || "montana"
KeyOf(req) == (IF req.workspace = "" THEN "montana" ELSE req.workspace) \o ".json"

\* JSON.parse of a body it does not throw on: the text "null" is the value
\* null, any other text names the object it denotes
JsonParse(text) == IF text = "null" THEN <<"null">> ELSE <<"object", text>>

\* JSON.stringify of a value
JsonStringify(v) == IF v = <<"null">> THEN "null" ELSE v[2]

\* store.get(key, { type: "json" }): null for a key that was never set
StoreGet(store, key) == IF key \in DOMAIN store THEN store[key] ELSE <<"null">>

\* JSON.stringify(json || {})
GetBody(store, key) ==
  LET json == StoreGet(store, key) IN
    JsonStringify(IF json = <<"null">> THEN <<"object", "{}">> ELSE json)

\* the catch clause of the handler
Caught(store, trace) == Outcome(Response(500, corsHeaders, "Internal error"), store, trace)

\* the PUT branch with the store written before the body is looked at
PutBranch_WriteFirst(req, store, fault, trace) ==
  IF fault = "call" THEN Caught(store, Append(trace, "setJSON"))
  ELSE IF req.body = "none"
  THEN Outcome(Response(400, corsHeaders, "Missing body"),
               Put(store, KeyOf(req), req.body), Append(trace, "setJSON"))
  ELSE IF req.body = "invalid" THEN Caught(Put(store, KeyOf(req), req.body), Append(trace, "setJSON"))
  ELSE Outcome(Response(200, corsHeaders, "ok"),
               Put(store, KeyOf(req), JsonParse(req.body)), Append(trace, "setJSON"))

\* if (method === "PUT") { ... }: body "none" is a missing or empty body,
\* "invalid" one that JSON.parse throws on, any other the value it parses to
PutBranch(req, store, fault, trace) ==
  IF req.body = "none" THEN Outcome(Response(400, corsHeaders, "Missing body"), store, trace)
  ELSE IF req.body = "invalid" THEN Caught(store, trace)
  ELSE IF fault = "call" THEN Caught(store, Append(trace, "setJSON"))
  ELSE Outcome(Response(200, corsHeaders, "ok"),
               Put(store, KeyOf(req), JsonParse(req.body)), Append(trace, "setJSON"))

\* the method dispatch inside the try, with the store handle at hand
Dispatch(req, store, fault, trace) ==
  IF MethodOf(req) = "GET"
  THEN IF fault = "call" THEN Caught(store, Append(trace, "get"))
       ELSE Outcome(Response(200, corsHeaders, GetBody(store, KeyOf(req))),
                    store, Append(trace, "get"))
  ELSE IF MethodOf(req) = "PUT" THEN PutBranch(req, store, fault, trace)
  ELSE Outcome(Response(405, corsHeaders, "Method not allowed"), store, trace)

Preflight(store, trace) == Outcome(Response(200, corsHeaders, ""), store, trace)

\* tokenHeader = event.headers["x-wfm-token"] || event.headers["X-Wfm-Token"]
\* ("none" when the request has neither); expected = process.env.WFM_TOKEN
TokenRejected(req, expected) ==
  expected # "" /\ MethodOf(req) = "PUT" /\ (req.token = "none" \/ req.token # expected)

handler1(req, expected, store, fault) ==
  IF fault = "getStore" THEN Outcome(Unhandled, store, <<"getStore">>)
  ELSE IF TokenRejected(req, expected)
  THEN Outcome(Response(401, {}, "Unauthorized"), store, <<"getStore">>)
  ELSE IF MethodOf(req) = "OPTIONS" THEN Preflight(store, <<"getStore">>)
  ELSE Dispatch(req, store, fault, <<"getStore">>)

handler2(req, store, fault) ==
  IF fault = "getStore" THEN Outcome(Unhandled, store, <<"getStore">>)
  ELSE IF MethodOf(req) = "OPTIONS" THEN Preflight(store, <<"getStore">>)
  ELSE Dispatch(req, store, fault, <<"getStore">>)

handler3(req, store, fault) ==
  IF MethodOf(req) = "OPTIONS" THEN Preflight(store, <<>>)
  ELSE IF fault = "getStore" THEN Caught(store, <<"getStore">>)
  ELSE Dispatch(req, store, fault, <<"getStore">>)

handler4(req, configured, store, fault) ==
  IF MethodOf(req) = "OPTIONS" THEN Preflight(store, <<>>)
  ELSE IF ~configured
  THEN Outcome(Response(500, corsHeaders, "Missing blobs configuration"), store, <<>>)
  ELSE IF fault = "getStore" THEN Caught(store, <<"getStore">>)
  ELSE Dispatch(req, store, fault, <<"getStore">>)

handler(version, req, expected, configured, store, fault) ==
  IF version = 1 THEN handler1(req, expected, store, fault)
  ELSE IF version = 2 THEN handler2(req, store, fault)
  ELSE IF version = 3 THEN handler3(req, store, fault)
  ELSE handler4(req, configured, store, fault)

\* one invocation of the function
Invoke(req, fault) ==
  /\ LET out == handler(handlerVersion, req, wfmToken, blobsEnv, blobs, fault) IN
       /\ blobs' = out.blobs
       /\ response' = <<out.response>>
       /\ storeTrace' = out.trace
  /\ lastRequest' = <<[req |-> req, fault |-> fault]>>
  /\ UNCHANGED <<handlerVersion, wfmToken, blobsEnv>>
  /\ UNCHANGED <<stateVars, viewVars, forecastVars, saveVars, heapVars>>

Methods == {"", "GET", "PUT", "OPTIONS", "POST"}
Workspaces == {"", "other"}
Tokens == {"none", "secret", "wrong"}
Bodies == {"none", "invalid", "snapshot"}
\* the blobs call that throws in a run, if any: getStore, or the get or setJSON
\* the run comes to
Faults == {"none", "getStore", "call"}

Requests ==
  [method : Methods, workspace : Workspaces, token : Tokens, body : Bodies]

InitNet ==
  /\ tz = 0
  /\ agents = <<>>
  /\ roster = NoRoster
  /\ vacations = NoVacations
  /\ tab = "schedule"
  /\ agentName = ""
  /\ importJob = <<>>
  /\ alertMsg = ""
  /\ lastOp = <<"mount">>
  /\ selectedDate = Today
  /\ selectedDay = weekdayNameFromISO(Today)
  /\ ForecastDefaults
  /\ SaverMounted
  /\ NoHeap
  /\ handlerVersion \in HandlerVersions
  /\ wfmToken \in {"", "secret"}
  /\ blobsEnv \in (IF handlerVersion = 4 THEN BOOLEAN ELSE {TRUE})
  /\ blobs = [k \in {} |-> <<"null">>]
  /\ lastRequest = <<>>
  /\ response = <<>>
  /\ storeTrace = <<>>

NextNet == \E req \in Requests, fault \in Faults : Invoke(req, fault)

SpecNet == InitNet /\ [][NextNet]_vars

(***************************************************************************)
(* The cloud load, the timers and the PUT requests of the saver.  Time     *)
(* advances in steps of TICK_MS; a timeout runs when the time reaches its  *)
(* due time.                                                               *)
(***************************************************************************)
\* half a debounce window
TICK_MS == DEBOUNCE_MS \div 2
\* the time the clock is followed up to, in ticks
MaxTicks == 5
\* snapshots handed to the saver in one behaviour, at most
MaxSnapshots == 3

\* snapshots the first GET can return: none (or an unreadable one), or one
\* that holds a serviceBuffer
CloudSnapshots == {<<>>, <<1>>}

\* the load effect once the GET has been answered: the fields of the
\* snapshot are set, the loading flag is cleared, and the render that
\* follows a change runs the save effect
LoadFinish(cloud) ==
  /\ isLoadingFromCloud
  /\ isLoadingFromCloud' = FALSE
  /\ serviceBuffer' = IF cloud = <<>> THEN serviceBuffer ELSE cloud[1]
  /\ alertMsg' = ""
  /\ lastOp' = <<"loadFinish">>
  /\ UNCHANGED <<tz, agents, roster, vacations, tab, agentName, importJob, viewVars,
                 ahtMin, occupancy, dailyAvg, hourlyPctByDay>>
  /\ UNCHANGED <<heapVars, netVars>>
  /\ UNCHANGED <<now, inflight, saveStatus, idleTimers>>
  /\ IF serviceBuffer' # serviceBuffer THEN Debounced(Payload') ELSE UNCHANGED <<timer, saveLog>>

TimerDue == timer # <<>> /\ timer[1].due <= now

\* the time passes; no timeout is left behind
Tick ==
  /\ now < MaxTicks * TICK_MS
  /\ ~TimerDue
  /\ \A t \in idleTimers : t > now
  /\ now' = now + TICK_MS
  /\ UNCHANGED <<stateVars, viewVars, forecastVars, heapVars, netVars>>
  /\ UNCHANGED <<isLoadingFromCloud, timer, inflight, saveStatus, idleTimers, saveLog>>

\* the timeout of debounce runs the saver: "saving", and the PUT is sent
FireSave ==
  /\ TimerDue
  /\ timer' = <<>>
  /\ saveStatus' = "saving"
  /\ inflight' = Append(inflight, timer[1])
  /\ saveLog' = [saveLog EXCEPT !.puts =
                   Append(@, [serial |-> timer[1].serial, at |-> now,
                              payload |-> timer[1].payload])]
  /\ lastOp' = <<"fireSave">>
  /\ UNCHANGED <<tz, agents, roster, vacations, tab, agentName, importJob, alertMsg>>
  /\ UNCHANGED <<viewVars, forecastVars, heapVars, netVars>>
  /\ UNCHANGED <<isLoadingFromCloud, now, idleTimers>>

\* inflight without its i-th request
Answered(i) == SubSeq(inflight, 1, i - 1) \o SubSeq(inflight, i + 1, Len(inflight))

\* const WORKSPACE = "montana"
WORKSPACE == "montana"

\* the PUT is answered with a 2xx status: the function has stored the
\* snapshot under the key of the workspace
PutOk(i) ==
  /\ i \in DOMAIN inflight
  /\ inflight' = Answered(i)
  /\ saveStatus' = "saved"
  /\ idleTimers' = idleTimers \cup {now + IDLE_MS}
  /\ blobs' = Put(blobs, KeyOf([workspace |-> WORKSPACE]), <<"object", inflight[i].payload>>)
  /\ lastOp' = <<"putOk">>
  /\ UNCHANGED <<tz, agents, roster, vacations, tab, agentName, importJob, alertMsg>>
  /\ UNCHANGED <<viewVars, forecastVars, heapVars>>
  /\ UNCHANGED <<handlerVersion, wfmToken, blobsEnv, lastRequest, response, storeTrace>>
  /\ UNCHANGED <<isLoadingFromCloud, now, timer, saveLog>>

PutFail_Resend(i) ==
  /\ i \in DOMAIN inflight
  /\ inflight' = Append(Answered(i), inflight[i])
  /\ saveStatus' = "error"
  /\ saveLog' = [saveLog EXCEPT !.puts =
                   Append(@, [serial |-> inflight[i].serial, at |-> now,
                              payload |-> inflight[i].payload])]
  /\ lastOp' = <<"putFail">>
  /\ UNCHANGED <<tz, agents, roster, vacations, tab, agentName, importJob, alertMsg>>
  /\ UNCHANGED <<viewVars, forecastVars, heapVars, netVars>>
  /\ UNCHANGED <<isLoadingFromCloud, now, timer, idleTimers>>

\* the PUT is answered with another status, or fetch rejects
PutFail(i) ==
  /\ i \in DOMAIN inflight
  /\ inflight' = Answered(i)
  /\ saveStatus' = "error"
  /\ lastOp' = <<"putFail">>
  /\ UNCHANGED <<tz, agents, roster, vacations, tab, agentName, importJob, alertMsg>>
  /\ UNCHANGED <<viewVars, forecastVars, heapVars, netVars>>
  /\ UNCHANGED <<isLoadingFromCloud, now, timer, idleTimers, saveLog>>

\* setTimeout(() => setSaveStatus("idle"), 1200) runs
FireIdle ==
  /\ now \in idleTimers
  /\ idleTimers' = idleTimers \ {now}
  /\ saveStatus' = "idle"
  /\ lastOp' = <<"fireIdle">>
  /\ UNCHANGED <<tz, agents, roster, vacations, tab, agentName, importJob, alertMsg>>
  /\ UNCHANGED <<viewVars, forecastVars, heapVars, netVars>>
  /\ UNCHANGED <<isLoadingFromCloud, now, timer, inflight, saveLog>>

InitSave ==
  /\ tz = 0
  /\ agents = <<>>
  /\ roster = NoRoster
  /\ vacations = NoVacations
  /\ tab = "forecast"
  /\ agentName = ""
  /\ importJob = <<>>
  /\ alertMsg = ""
  /\ lastOp = <<"mount">>
  /\ selectedDate = Today
  /\ selectedDay = weekdayNameFromISO(Today)
  /\ ForecastDefaults
  /\ isLoadingFromCloud = TRUE
  /\ now = 0
  /\ timer = <<>>
  /\ inflight = <<>>
  /\ saveStatus = "idle"
  /\ idleTimers = {}
  /\ saveLog = [on |-> TRUE, handed |-> <<>>, puts |-> <<>>]
  /\ NoHeap
  /\ NoRequests

\* one more snapshot can be handed to the saver
SnapshotRoom == Len(saveLog.handed) < MaxSnapshots

NextSave ==
  \/ \E cloud \in CloudSnapshots : LoadFinish(cloud)
  \/ SnapshotRoom /\ \E v \in 0..MaxBuffer : setServiceBuffer(v)
  \/ Tick
  \/ FireSave
  \/ \E i \in 1..MaxSnapshots : PutOk(i)
  \/ \E i \in 1..MaxSnapshots : PutFail(i)
  \/ FireIdle

SpecSave == InitSave /\ [][NextSave]_vars

\* the saver with every PUT answered 2xx, in any order
NextSync ==
  \/ \E cloud \in CloudSnapshots : LoadFinish(cloud)
  \/ SnapshotRoom /\ \E v \in 0..MaxBuffer : setServiceBuffer(v)
  \/ Tick
  \/ FireSave
  \/ \E i \in 1..MaxSnapshots : PutOk(i)
  \/ FireIdle

SpecSync == InitSave /\ [][NextSync]_vars

(***************************************************************************)
(* GET and PUT requests of several workspaces, with the token the function *)
(* expects.                                                                *)
(***************************************************************************)
\* workspace parameters: none, the default name, another name
StoreWorkspaces == {"", "montana", "other"}

\* bodies of PUT requests: none, two snapshots, the JSON text null
StoreBodies == {"none", "snapshot1", "snapshot2", "null"}

StoreRequests ==
  [method : {"GET", "PUT"}, workspace : StoreWorkspaces, token : {"secret"}, body : StoreBodies]

InitStore ==
  /\ InitNet
  /\ blobsEnv
  /\ wfmToken = "secret"

NextStore == \E req \in StoreRequests, fault \in {"none", "call"} : Invoke(req, fault)

SpecStore == InitStore /\ [][NextStore]_vars

(***************************************************************************)
(* CSV imports that name an agent and a day in several rows, interleaved   *)
(* with the agent form, the Switch of a row and the vacation form.         *)
(***************************************************************************)
\* a file with three rows for agent a, two of them for Thursday; a file for
\* agent b with two rows that are skipped and two rows for Friday
RaceFiles ==
  { [headers |-> NEEDED,
     lines |-> <<CsvLine("a", "Thursday", Num(1), Time(8, 0), Time(16, 0), Time(12, 0), Num(30)),
                 CsvLine("a", "Thursday", Num(0), Time(10, 0), Time(18, 0), EmptyCell, Num(0)),
                 CsvLine("a", "Monday", Num(1), Time(9, 0), Time(17, 0), Time(13, 0), Num(60))>>],
    [headers |-> NEEDED,
     lines |-> <<CsvLine("b", "Friday", Num(0), Time(9, 0), Time(17, 0), Time(12, 0), Num(30)),
                 CsvLine("", "Monday", Num(1), Time(9, 0), Time(17, 0), Time(13, 0), Num(60)),
                 CsvLine("b", "Funday", Num(1), Time(9, 0), Time(17, 0), Time(13, 0), Num(60)),
                 CsvLine("b", "Friday", Num(1), Time(7, 0), Time(15, 0), EmptyCell, Num(0))>>] }

InitRace ==
  /\ tz = 0
  /\ agents = <<>>
  /\ roster = NoRoster
  /\ vacations = NoVacations
  /\ tab = "schedule"
  /\ agentName = ""
  /\ importJob = <<>>
  /\ alertMsg = ""
  /\ lastOp = <<"mount">>
  /\ selectedDate = Today
  /\ selectedDay = weekdayNameFromISO(Today)
  /\ ForecastDefaults
  /\ SaverMounted
  /\ NoHeap
  /\ NoRequests

NextRace ==
  \/ \E t \in {"schedule", "vacations"} : SwitchTab(t)
  \/ SelectAgent("b")
  \/ addVacationRange(FromDayNum(FirstDay), FromDayNum(FirstDay))
  \/ \E n \in Names \cup {""}, f \in AgentForms : addAgent(n, f)
  \/ \E n \in Names : removeAgent(n, TRUE)
  \/ \E c \in BOOLEAN : toggleActive("a", c)
  \/ \E f \in RaceFiles : ImportStart(f)
  \/ ImportFinish

SpecRace == InitRace /\ [][NextRace]_vars

(***************************************************************************)
(* Properties of the vacation store.                                       *)
(***************************************************************************)
Before(a, b) == DayNum(a) < DayNum(b)
NotAfter(a, b) == DayNum(a) <= DayNum(b)
Range(s, e) == [start |-> s, end |-> e]

\* C1: every stored range list is sorted by start, every range has
\* start <= end, and consecutive ranges A, B have B.start later than the day
\* after A.end (neither overlapping nor adjacent).
C1_StoreMinimal ==
  \A n \in DOMAIN vacations :
    LET list == vacations[n] IN
      /\ \A i \in 1..Len(list) : NotAfter(list[i].start, list[i].end)
      /\ \A i \in 1..(Len(list) - 1) :
           /\ NotAfter(list[i].start, list[i + 1].start)
           /\ DayNum(list[i + 1].start) > DayNum(list[i].end) + 1

\* the form inputs whose end date is an earlier calendar day than the start
InvertedPairs == {p \in VacDates \X VacDates : Before(p[2], p[1])}

\* C2: addRange with start > end raises the validation alert and leaves the
\* vacation store of every agent as it was.
C2_InvalidRangeRejected ==
  [][\A p \in InvertedPairs :
       (agentName # "" /\ addVacationRange(p[1], p[2]))
         => (vacations' = vacations /\ alertMsg' # "")]_vars

C2_Witness ==
  /\ lastOp[1] = "addVacationRange"
  /\ alertMsg = "End date must be on or after start date."
  /\ agentName \in DOMAIN vacations

\* C3: a second range added for an agent that has one stored range yields a
\* single stored range exactly when the later-starting of the two begins no
\* later than the day after the earlier one ends; {5,10} then {11,15} gives
\* {5,15}, {5,10} then {12,15} gives the two ranges.
C3_Expected(old, new, after) ==
  LET first == IF NotAfter(old.start, new.start) THEN old ELSE new
      second == IF NotAfter(old.start, new.start) THEN new ELSE old
  IN  /\ (Len(after) = 1) <=> (DayNum(second.start) <= DayNum(first.end) + 1)
      /\ (/\ old = Range(<<2024, 6, 5>>, <<2024, 6, 10>>)
          /\ new = Range(<<2024, 6, 11>>, <<2024, 6, 15>>))
           => after = <<Range(<<2024, 6, 5>>, <<2024, 6, 15>>)>>
      /\ (/\ old = Range(<<2024, 6, 5>>, <<2024, 6, 10>>)
          /\ new = Range(<<2024, 6, 12>>, <<2024, 6, 15>>))
           => after = <<old, new>>

C3_MergeIffTouching ==
  [][\A s \in MergeDates, e \in MergeDates :
       (/\ Len(RangesOf(vacations, agentName)) = 1
        /\ NotAfter(s, e)
        /\ addVacationRange(s, e))
         => C3_Expected(vacations[agentName][1], Range(s, e), vacations'[agentName])]_vars

\* the dates isOnVacation is asked about: the form's dates and a day either side
QueryDates == {FromDayNum(FirstDay + i) : i \in (0 - 1)..NumDays}

\* C4: isOnVacation(agent, date) holds exactly when a range stored for the
\* agent has start <= date <= end; it is false for an agent without entry.
C4_OnVacationIffInRange ==
  \A n \in Names, d \in QueryDates :
    isAgentOnVacation(n, d, vacations)
      <=> (/\ n \in DOMAIN vacations
           /\ \E i \in 1..Len(vacations[n]) :
                /\ DayNum(vacations[n][i].start) <= DayNum(d)
                /\ DayNum(d) <= DayNum(vacations[n][i].end))

C4_Witness ==
  /\ \E n \in DOMAIN vacations : \E i \in 1..Len(vacations[n]) :
       /\ Before(vacations[n][i].start, vacations[n][i].end)
       /\ isAgentOnVacation(n, vacations[n][i].end, vacations)
       /\ ~isAgentOnVacation(n, FromDayNum(DayNum(vacations[n][i].end) + 1), vacations)
  /\ \E n \in Names : n \notin DOMAIN vacations

\* C5: removeRange deletes exactly the range at the position and keeps the
\* others in order, removes the key when the list becomes empty, and no key
\* of the vacation store ever maps to an empty list.
C5_RemoveRangeExact ==
  /\ [](\A n \in DOMAIN vacations : Len(vacations[n]) > 0)
  /\ [][\A n \in Names, idx \in 0..(NumDays - 1) :
          (lastOp' = <<"removeRange", n>> /\ removeRange(n, idx)) =>
            (/\ \A m \in DOMAIN vacations \ {n} :
                  m \in DOMAIN vacations' /\ vacations'[m] = vacations[m]
             /\ DOMAIN vacations' \subseteq DOMAIN vacations
             /\ IF Len(vacations[n]) = 1 THEN n \notin DOMAIN vacations'
                ELSE /\ n \in DOMAIN vacations'
                     /\ Len(vacations'[n]) = Len(vacations[n]) - 1
                     /\ \A j \in 1..(Len(vacations[n]) - 1) :
                          vacations'[n][j] = IF j <= idx THEN vacations[n][j]
                                             ELSE vacations[n][j + 1])]_vars

C5_Witness ==
  /\ lastOp[1] = "removeRange"
  /\ lastOp[2] \notin DOMAIN vacations
  /\ \E m \in DOMAIN vacations : Len(vacations[m]) > 0

\* C6: removing an agent deletes its roster entry and its vacation entry,
\* and every key of the vacation store names an agent of the agent list.
C6_NoOrphanVacations ==
  /\ [](DOMAIN vacations \subseteq AgentNames(agents))
  /\ [][\A n \in Names :
          removeAgent(n, TRUE) =>
            (/\ n \notin DOMAIN roster'
             /\ n \notin DOMAIN vacations'
             /\ ~HasAgent(agents', n))]_vars


(***************************************************************************)
(* Properties of the coverage engine.                                      *)
(***************************************************************************)
OnVacationOn(name, date) ==
  /\ name \in DOMAIN vacations
  /\ \E i \in 1..Len(vacations[name]) :
       /\ DayNum(vacations[name][i].start) <= DayNum(date)
       /\ DayNum(date) <= DayNum(vacations[name][i].end)

\* the coverage of the selected day and date for a list of agents
CoverageOf(list) == halfHourCoverage(roster, list, selectedDay, selectedDate, vacations)

NoCoverage == [k \in Buckets |-> 0]

\* C7: an agent on vacation on the selected date is counted in no bucket,
\* whatever its block: the coverage equals the coverage computed without it.
C7_VacationExcluded ==
  \A i \in 1..Len(agents) :
    OnVacationOn(agents[i].name, selectedDate)
      => /\ coverage48 = CoverageOf(FilterOutName(agents, agents[i].name))
         /\ halfHourCoverage(roster, <<agents[i]>>, selectedDay, selectedDate, vacations)
              = NoCoverage

C7_Witness ==
  \E i \in 1..Len(agents) :
    /\ OnVacationOn(agents[i].name, selectedDate)
    /\ halfHourCoverage(roster, <<agents[i]>>, selectedDay, selectedDate, NoVacations)
         # NoCoverage
    /\ coverage48 # NoCoverage

\* C8: a block with endMin <= startMin contributes 0 to each of the 48
\* buckets, whatever its active flag and break fields.
C8_EmptyBlockNoCoverage ==
  \A i \in 1..Len(agents) :
    LET blk == BlockAt(roster, agents[i].name, selectedDay) IN
      (blk # <<>> /\ blk[1].endMin <= blk[1].startMin)
        => halfHourCoverage(roster, <<agents[i]>>, selectedDay, selectedDate, NoVacations)
             = NoCoverage

C8_Witness ==
  \E i \in 1..Len(agents) :
    LET blk == BlockAt(roster, agents[i].name, selectedDay) IN
      /\ blk # <<>>
      /\ blk[1].active
      /\ blk[1].endMin = blk[1].startMin
      /\ ~OnVacationOn(agents[i].name, selectedDate)
      /\ coverage48 # NoCoverage

\* the buckets of the default block: 09:00-17:00 without 13:00-14:00
DefaultCoverage == [k \in Buckets |-> IF k \in (18..33) \ {26, 27} THEN 1 ELSE 0]

\* C9: an agent of the list that is not on vacation and has no roster entry
\* for the selected weekday is counted as the default block: in buckets
\* 18-33 except 26 and 27.
C9_MissingDayUsesDefault ==
  \A i \in 1..Len(agents) :
    (/\ ~OnVacationOn(agents[i].name, selectedDate)
     /\ BlockAt(roster, agents[i].name, selectedDay) = <<>>)
      => halfHourCoverage(roster, <<agents[i]>>, selectedDay, selectedDate, vacations)
           = DefaultCoverage


(***************************************************************************)
(* Properties of the requirement engine.                                   *)
(***************************************************************************)
RECURSIVE SumInts(_, _)
SumInts(f, k) == IF k >= halfHourBuckets THEN 0 ELSE f[k] + SumInts(f, k + 1)

RECURSIVE SumSeq(_)
SumSeq(q) == IF q = <<>> THEN 0 ELSE Head(q) + SumSeq(Tail(q))

\* n agents are enough for bucket k: n * max(0.1, 30 * occupancy) is at least
\* expectedVolume[k] * ahtMin, the volume being dailyAvg times the share of
\* the bucket in the sum of the 48 half-hour shares
Enough(n, k) ==
  LET hourly == hourlyPctByDay[selectedDay]
      total == SumSeq(hourly)
      share == hourly[(k \div 2) + 1]
      cap == Max(1, 3 * occupancy)
  IN  IF total = 0 THEN n >= 0
      ELSE n * cap * 2 * total >= 10 * dailyAvg[selectedDay] * share * ahtMin

\* C10: required[k] is the ceiling of expectedVolume[k] * ahtMin /
\* max(0.1, 30 * occupancy) plus serviceBuffer, and with everything else
\* fixed the sum of required over the 48 buckets does not decrease when
\* serviceBuffer grows.
C10_RequiredFormula ==
  LET demand == demand48
      req == required48
  IN  /\ \A k \in Buckets :
           /\ Enough(req[k] - serviceBuffer, k)
           /\ ~Enough(req[k] - serviceBuffer - 1, k)
      /\ \A smaller \in 0..serviceBuffer, larger \in serviceBuffer..(MaxBuffer + 1) :
           /\ SumInts(required48Of(demand, ahtMin, occupancy, smaller), 0) <= SumInts(req, 0)
           /\ SumInts(req, 0) <= SumInts(required48Of(demand, ahtMin, occupancy, larger), 0)

C10_Witness ==
  LET req == required48
  IN  /\ serviceBuffer > 0
      /\ lastOp[1] = "setServiceBuffer"
      /\ occupancy = 0
      /\ \E k \in Buckets : req[k] > serviceBuffer + 1
      /\ \E k \in Buckets : req[k] = serviceBuffer

(***************************************************************************)
(* Properties of the CSV export and import and of the schedule edits.      *)
(***************************************************************************)
\* the block exportCSV writes for the agent and the weekday
ExportedBlk(name, d) ==
  IF name \in DOMAIN roster /\ d \in DOMAIN roster[name] THEN roster[name][d] ELSE DEFAULT_DAY

\* C11: the file exported from the current roster, imported into an empty
\* application, yields for every listed agent and every weekday a block with
\* the active, startMin, endMin, breakStartMin and breakMins of the block
\* that was exported.
C11_RoundTrip ==
  LET res == ImportOf(<<>>, NoRoster, exportCSV(roster, agents)) IN
    \A i \in 1..Len(agents), d \in WeekdaySet :
      LET name == agents[i].name
          out == ExportedBlk(name, d)
      IN  /\ res.ok
          /\ name \in DOMAIN res.roster
          /\ d \in DOMAIN res.roster[name]
          /\ LET back == res.roster[name][d] IN
               /\ back.active = out.active
               /\ back.startMin = out.startMin
               /\ back.endMin = out.endMin
               /\ back.breakStartMin = out.breakStartMin
               /\ OrZero(back.breakMins) = OrZero(out.breakMins)

\* C12: an import of a file whose header line lacks a required column
\* leaves the agent list and the roster as they were and raises the alert,
\* whatever its lines hold.
C12_BadHeaderRejected ==
  [][\A f \in EditFiles :
       (~(\A i \in 1..Len(NEEDED) : \E k \in 1..Len(f.headers) : f.headers[k] = NEEDED[i])
        /\ importFile(f))
         => (agents' = agents /\ roster' = roster /\ alertMsg' # "")]_vars

C12_Witness ==
  /\ lastOp = <<"importFile", FALSE>>
  /\ alertMsg # ""
  /\ Len(agents) > 0
  /\ "a" \in DOMAIN roster
  /\ roster["a"]["Thursday"] # DEFAULT_DAY

\* C13: every block stored in the roster with breakMins > 0 has a defined
\* breakStartMin.
C13_BreakHasStart ==
  \A n \in DOMAIN roster : \A d \in DOMAIN roster[n] :
    OrZero(roster[n][d].breakMins) > 0 => roster[n][d].breakStartMin # Undefined

(***************************************************************************)
(* Properties of the updates at the level of object identities.            *)
(***************************************************************************)
\* C14: what a reference to the roster object of before an update reads,
\* the weekday maps it refers to included, is the same after the update.
C14_OldReferenceUnchanged ==
  [][Deref(rosterRef, heap') = Deref(rosterRef, heap)]_vars

(***************************************************************************)
(* Properties of the schedule function.                                    *)
(***************************************************************************)
\* the request and the fault of the last run, and its response
LastReq == lastRequest[1].req
LastFault == lastRequest[1].fault
LastResponse == response[1]

\* C15: with a write token configured, a PUT whose token header is missing
\* or differs from it is answered 401, makes no get or setJSON call on the
\* store and leaves the store as it was, whatever its body.
C15_UnauthorizedPutRejected ==
  [][(/\ wfmToken # ""
      /\ MethodOf(LastReq') = "PUT"
      /\ LastReq'.token # wfmToken)
       => (/\ LastResponse'.statusCode = 401
           /\ blobs' = blobs
           /\ \A i \in 1..Len(storeTrace') : storeTrace'[i] \notin {"get", "setJSON"})]_vars

\* C16: every response the handler returns carries the CORS header set that
\* allows GET,PUT,OPTIONS and Content-Type,x-wfm-token.
C16_UniformCors ==
  (lastRequest # <<>> /\ LastResponse # Unhandled) => LastResponse.headers = corsHeaders

\* C17: a run of the handler changes the store only if the request is a PUT
\* and the run answers 200.
C17_OnlyOkPutWrites ==
  [][blobs' # blobs => (MethodOf(LastReq') = "PUT" /\ LastResponse'.statusCode = 200)]_vars

C17_Witness ==
  /\ lastRequest # <<>>
  /\ MethodOf(LastReq) = "PUT"
  /\ LastReq.workspace = ""
  /\ LastResponse.statusCode \in {400, 500}
  /\ "montana.json" \in DOMAIN blobs

\* C18: no run of the handler ends with an unhandled error, and a GET or PUT
\* during which getStore, get or setJSON throws, or whose body cannot be
\* parsed, is answered 500.
C18_FailuresBecome500 ==
  lastRequest # <<>> =>
    /\ LastResponse # Unhandled
    /\ (MethodOf(LastReq) \in {"GET", "PUT"} /\ LastFault = "getStore")
         => LastResponse.statusCode = 500
    /\ (\E i \in 1..Len(storeTrace) : storeTrace[i] \in {"get", "setJSON"}) /\ LastFault = "call"
         => LastResponse.statusCode = 500

(***************************************************************************)
(* The debounced saver.                                                    *)
(***************************************************************************)
\* the PUTs sent, by the number of the snapshot they carry
PutsOf(k) == {i \in DOMAIN saveLog.puts : saveLog.puts[i].serial = k}

\* snapshot k was followed by another one inside its window of DEBOUNCE_MS
Superseded(k) ==
  /\ k < Len(saveLog.handed)
  /\ saveLog.handed[k + 1].at < saveLog.handed[k].at + DEBOUNCE_MS

\* C19: of the snapshots handed to the debounced saver, one that is followed
\* by another snapshot less than 800 ms later is never sent as a PUT (its
\* timer is cancelled); every PUT carries a snapshot as it was handed over
\* and leaves 800 ms after that snapshot arrived; no snapshot is sent twice;
\* and the last snapshot has been sent, once, when 800 ms have passed since
\* it arrived.
C19_OnlyLatestInWindowSent ==
  /\ \A k \in DOMAIN saveLog.handed : Superseded(k) => PutsOf(k) = {}
  /\ \A i \in DOMAIN saveLog.puts :
       /\ saveLog.puts[i].serial \in DOMAIN saveLog.handed
       /\ saveLog.puts[i].payload = saveLog.handed[saveLog.puts[i].serial].payload
       /\ saveLog.puts[i].at = saveLog.handed[saveLog.puts[i].serial].at + DEBOUNCE_MS
  /\ \A k \in DOMAIN saveLog.handed : Cardinality(PutsOf(k)) <= 1
  /\ saveLog.handed # <<>> /\ now > saveLog.handed[Len(saveLog.handed)].at + DEBOUNCE_MS
       => Cardinality(PutsOf(Len(saveLog.handed))) = 1
  /\ timer # <<>> => timer[1].serial = Len(saveLog.handed)

\* three snapshots were handed over, the second was superseded by the third
\* inside its window, and the first and the third have been sent
C19_Witness ==
  /\ Len(saveLog.handed) = 3
  /\ Superseded(2)
  /\ ~Superseded(1)
  /\ PutsOf(1) # {}
  /\ PutsOf(3) # {}
  /\ PutsOf(2) = {}

\* C20: the step in which a save PUT fails leaves agents, roster, vacations
\* and the forecast parameters as they were, sets the save status to
\* "error", and neither sends a PUT nor sets a timer; and every PUT that is
\* sent carries a snapshot handed over later than all those sent before it,
\* so that a failed snapshot is never sent again and only a new debounced
\* write leads to the next PUT.
C20_FailedSaveNoRetry ==
  [][ /\ lastOp' = <<"putFail">> /\ now' = now
         => /\ agents' = agents
            /\ roster' = roster
            /\ vacations' = vacations
            /\ forecastVars' = forecastVars
            /\ viewVars' = viewVars
            /\ saveStatus' = "error"
            /\ saveLog'.puts = saveLog.puts
            /\ timer' = timer
      /\ saveLog'.puts # saveLog.puts
         => /\ timer # <<>>
            /\ saveLog'.puts = Append(saveLog.puts,
                                      [serial |-> timer[1].serial, at |-> now,
                                       payload |-> timer[1].payload])
            /\ \A i \in DOMAIN saveLog.puts :
                 saveLog.puts[i].serial < timer[1].serial ]_vars

\* a PUT that carried a changed serviceBuffer has just failed
C20_Witness ==
  /\ lastOp = <<"putFail">>
  /\ saveStatus = "error"
  /\ saveLog.puts # <<>>
  /\ serviceBuffer # 0
  /\ serviceBuffer = saveLog.puts[Len(saveLog.puts)].payload.serviceBuffer
  /\ inflight = <<>>
  /\ timer = <<>>

(***************************************************************************)
(* The agent list as a key, and the frame of an import.                    *)
(***************************************************************************)
\* C21: no two entries of the agent list have the same name and no entry
\* has an empty name, in every state reached by addAgent, removeAgent and
\* CSV imports (also with rows that repeat a new agent, and with addAgent
\* while an import is in flight).
C21_NamesAreKey ==
  \A i, j \in DOMAIN agents :
    /\ agents[i].name # ""
    /\ agents[i].name = agents[j].name => i = j

\* an import that named the new agent a in several rows has finished after
\* agent b was added while it was in flight
C21_Witness ==
  /\ lastOp = <<"importFinish">>
  /\ alertMsg = ""
  /\ HasAgent(agents, "a")
  /\ "a" \in DOMAIN roster
  /\ DOMAIN roster["a"] = {"Thursday", "Monday"}
  /\ "b" \in DOMAIN vacations

(***************************************************************************)
(* The coverage as a count of agents.                                      *)
(***************************************************************************)
\* the rosters of SpecCov in one time zone, a vacation being the single day
\* 2024-03-01
InitCount ==
  /\ InitCov
  /\ tz = 0
  /\ \A n \in DOMAIN vacations :
       vacations[n] = <<[start |-> <<2024, 3, 1>>, end |-> <<2024, 3, 1>>]>>

SpecCount == InitCount /\ [][NextCov]_vars

\* the minutes of bucket k, [30k, 30k + 30), that lie in [lo, hi)
MinutesIn(lo, hi, k) == Cardinality({m \in (30 * k)..(30 * k + 29) : lo <= m /\ m < hi})

\* work - brk of a block in bucket k, counted minute by minute; a block
\* without a break start has no break interval
NetPresence(blk, k) ==
  MinutesIn(blk.startMin, blk.endMin, k)
    - (IF blk.breakStartMin = Undefined THEN 0
       ELSE MinutesIn(blk.breakStartMin[1], blk.breakStartMin[1] + OrZero(blk.breakMins), k))

\* the agents of the list counted in bucket k, by their position
Present(k) ==
  {i \in DOMAIN agents :
     LET blk == BlockAt(roster, agents[i].name, selectedDay) IN
       /\ ~OnVacationOn(agents[i].name, selectedDate)
       /\ blk # <<>>
       /\ blk[1].active
       /\ NetPresence(blk[1], k) > 0}

\* C22: the coverage has 48 counts, and count k is the number of agents of
\* the list that are not on vacation on the date, have an active block for
\* the weekday and have work - brk > 0 in bucket k; an agent with the block
\* 09:00-17:00 and a 60-minute break at 13:00 counts 1 in buckets 18-33
\* except 26 and 27 and 0 elsewhere.
C22_CoverageCounts ==
  /\ DOMAIN coverage48 = 0..47
  /\ \A k \in Buckets : coverage48[k] = Cardinality(Present(k))
  /\ \A i \in DOMAIN agents :
       LET blk == BlockAt(roster, agents[i].name, selectedDay) IN
         (/\ blk = <<DayBlock(TRUE, 9 * 60, 17 * 60, Some(13 * 60), Some(60))>>
          /\ ~OnVacationOn(agents[i].name, selectedDate))
           => halfHourCoverage(roster, <<agents[i]>>, selectedDay, selectedDate, vacations)
                = DefaultCoverage

\* two agents with blocks for the day: the 09:00-17:00 block with the break
\* at 13:00, and 13:15-13:30 inside its break, which is counted nowhere
C22_Witness ==
  /\ Len(agents) = 2
  /\ selectedDay = "Friday"
  /\ roster[agents[1].name]["Friday"] = DayBlock(TRUE, 9 * 60, 17 * 60, Some(13 * 60), Some(60))
  /\ roster[agents[2].name]["Friday"] = DayBlock(TRUE, 795, 810, Some(13 * 60), Some(60))
  /\ coverage48 = DefaultCoverage
  /\ \A n \in AgentNames(agents) : ~OnVacationOn(n, selectedDate)

(***************************************************************************)
(* What an import writes and what it leaves alone.                         *)
(***************************************************************************)
\* the rows of a file the loop of onImport does not skip, by their position
ValidRows(file) ==
  {i \in 1..Len(file.lines) :
     LET r == parseCSV(file).rows[i] IN
       /\ CellString(Field(r, "agent")) # ""
       /\ CellString(Field(r, "day")) \in WeekdaySet}

\* the positions of the valid rows that name agent n and day d
RowsFor(file, n, d) ==
  {i \in ValidRows(file) :
     LET r == parseCSV(file).rows[i] IN
       CellString(Field(r, "agent")) = n /\ CellString(Field(r, "day")) = d}

LastRowFor(file, n, d) ==
  parseCSV(file).rows[CHOOSE i \in RowsFor(file, n, d) : \A k \in RowsFor(file, n, d) : k <= i]

\* the step in which an import with a complete header line writes its result
ImportWrites ==
  /\ importJob # <<>>
  /\ importJob' = <<>>
  /\ HeadersOk(importJob[1].file.headers)

\* C23: when an import writes its result, the roster entry of every (agent,
\* day) named by a valid row is the block built from the last such row and
\* the vacation store is unchanged; every other roster entry and every
\* agent that existed are as they were when the import was started.
C23_ImportFrame ==
  [][ImportWrites =>
        LET file == importJob[1].file IN
          /\ \A n \in Names, d \in WeekdaySet :
               RowsFor(file, n, d) # {}
                 => BlockAt(roster', n, d) = <<RowBlock(LastRowFor(file, n, d))>>
          /\ vacations' = vacations
          /\ \A n \in Names, d \in WeekdaySet :
               RowsFor(file, n, d) = {}
                 => BlockAt(roster', n, d) = BlockAt(importJob[1].roster, n, d)
          /\ \A i \in DOMAIN importJob[1].agents :
               i \in DOMAIN agents' /\ agents'[i] = importJob[1].agents[i]]_vars

\* agent a existed with its default week and has a vacation; the import
\* has replaced its Thursday by the second Thursday row of the file and its
\* Monday, and has left its Friday
C23_Witness ==
  /\ lastOp = <<"importFinish">>
  /\ alertMsg = ""
  /\ "a" \in DOMAIN roster
  /\ DOMAIN roster["a"] = WeekdaySet
  /\ roster["a"]["Thursday"] = DayBlock(FALSE, 10 * 60, 18 * 60, Undefined, Some(0))
  /\ roster["a"]["Monday"] = DayBlock(TRUE, 9 * 60, 17 * 60, Some(13 * 60), Some(60))
  /\ roster["a"]["Friday"] = DayBlock(FALSE, 9 * 60, 17 * 60, Undefined, Some(0))
  /\ HasAgent(agents, "a")
  /\ "a" \in DOMAIN vacations

\* C29: when an import writes its result, every agent of the current list
\* is still in the list, no agent that is neither in the current list nor
\* named by the file is in it, and every roster entry the file does not
\* name is the current one.
C29_ImportOnCurrentState ==
  [][ImportWrites =>
        LET file == importJob[1].file IN
          /\ \A i \in DOMAIN agents :
               \E j \in DOMAIN agents' : agents'[j] = agents[i]
          /\ \A n \in Names :
               (~HasAgent(agents, n) /\ \A d \in WeekdaySet : RowsFor(file, n, d) = {})
                 => ~HasAgent(agents', n)
          /\ \A n \in Names, d \in WeekdaySet :
               RowsFor(file, n, d) = {}
                 => BlockAt(roster', n, d) = BlockAt(roster, n, d)]_vars

(***************************************************************************)
(* The store as a map from workspaces to snapshots.                        *)
(***************************************************************************)
\* the request of a GET of workspace w, and what it would be answered now
GetOf(w) == [method |-> "GET", workspace |-> w, token |-> "secret", body |-> "none"]

Stored(w, store) == GetBody(store, KeyOf(GetOf(w)))

\* C24: a GET of workspace W answered 200 returns the body of the most
\* recent PUT to W that was answered 200, or {} if there was none: no PUT
\* has been answered at the start, a PUT to W answered 200 makes its body
\* what a GET of W returns and leaves what a GET of every other workspace
\* returns, no other run changes what a GET returns, and a GET answered 200
\* returns just that.
C24_GetReturnsLastPut ==
  /\ (lastRequest = <<>>) => \A w \in StoreWorkspaces : Stored(w, blobs) = "{}"
  /\ [][LET req == LastReq'
            okPut == MethodOf(req) = "PUT" /\ LastResponse'.statusCode = 200
        IN  /\ okPut => Stored(req.workspace, blobs') = req.body
            /\ \A w \in StoreWorkspaces :
                 (~okPut \/ w # req.workspace) => Stored(w, blobs') = Stored(w, blobs)
            /\ (MethodOf(req) = "GET" /\ LastResponse'.statusCode = 200)
                 => LastResponse'.body = Stored(req.workspace, blobs)]_vars

(***************************************************************************)
(* The selected day and the selected date.                                 *)
(***************************************************************************)
\* C25: after every handler and the effects that follow it, selectedDay is
\* the weekday of selectedDate.
C25_DayMatchesDate == selectedDay = weekdayNameFromISO(selectedDate)

(***************************************************************************)
(* The saver while the first GET is in progress.                           *)
(***************************************************************************)
\* C26: while the cloud load has not finished, no snapshot is handed to the
\* saver, no save timer is pending, and no PUT is in flight or has been
\* sent.
C26_NoSaveWhileLoading ==
  isLoadingFromCloud =>
    /\ timer = <<>>
    /\ inflight = <<>>
    /\ saveLog.handed = <<>>
    /\ saveLog.puts = <<>>

\* the service buffer was changed while the load is still in progress
C26_Witness ==
  /\ isLoadingFromCloud
  /\ lastOp = <<"setServiceBuffer">>
  /\ serviceBuffer # 0
  /\ now > DEBOUNCE_MS

\* the snapshot the store holds for the workspace of the application
StoredSnapshot == StoreGet(blobs, KeyOf([workspace |-> WORKSPACE]))

\* C27: once every save PUT has been answered and no save is pending, the
\* store holds the snapshot that was handed to the saver last.
C27_StoreHoldsLatest ==
  (/\ saveLog.handed # <<>>
   /\ timer = <<>>
   /\ inflight = <<>>)
    => StoredSnapshot = <<"object", saveLog.handed[Len(saveLog.handed)].payload>>

(***************************************************************************)
(* The save status indicator.                                              *)
(***************************************************************************)
\* C28: while a save PUT is in flight the status is "saving"; the step in
\* which the timer of a successful save sets the status to "idle" is taken
\* with no PUT in flight and not from the status "error".
C28_StatusReflectsSave ==
  /\ [](inflight # <<>> => saveStatus = "saving")
  /\ [][(saveStatus' = "idle" /\ saveStatus # "idle")
          => (inflight = <<>> /\ saveStatus # "error")]_vars

(***************************************************************************)
(* addRange as a union of dates.                                           *)
(***************************************************************************)
\* the dates of QueryDates on which agent n is on vacation in store vac
VacationDays(vac, n) ==
  {d \in QueryDates :
     \E i \in 1..Len(RangesOf(vac, n)) :
       /\ DayNum(RangesOf(vac, n)[i].start) <= DayNum(d)
       /\ DayNum(d) <= DayNum(RangesOf(vac, n)[i].end)}

\* the dates from s to e
DaysOf(s, e) == {d \in QueryDates : DayNum(s) <= DayNum(d) /\ DayNum(d) <= DayNum(e)}

\* the form inputs with start <= end
OrderedPairs == {p \in VacDates \X VacDates : NotAfter(p[1], p[2])}

\* the list stored for an agent after adding the range r to the list
AddTo(list, r) == mergeRanges(Append(list, r), tz)

\* C30: addRange(agent, start, end) with start <= end makes the vacation
\* dates of the agent the previous ones united with the dates from start to
\* end and leaves the lists of all other agents; when the dates from start
\* to end were all vacation dates already, the stored list of the agent is
\* unchanged; and adding two ranges to a stored list gives the same list in
\* either order.
C30_AddRangeIsUnion ==
  [][\A p \in OrderedPairs :
       (agentName # "" /\ addVacationRange(p[1], p[2]))
         => /\ VacationDays(vacations', agentName)
                 = VacationDays(vacations, agentName) \cup DaysOf(p[1], p[2])
            /\ \A m \in Names \ {agentName} :
                 /\ (m \in DOMAIN vacations') = (m \in DOMAIN vacations)
                 /\ RangesOf(vacations', m) = RangesOf(vacations, m)
            /\ DaysOf(p[1], p[2]) \subseteq VacationDays(vacations, agentName)
                 => RangesOf(vacations', agentName) = RangesOf(vacations, agentName)
            /\ \A q \in OrderedPairs :
                 AddTo(AddTo(RangesOf(vacations, agentName), Range(p[1], p[2])),
                       Range(q[1], q[2]))
                   = AddTo(AddTo(RangesOf(vacations, agentName), Range(q[1], q[2])),
                           Range(p[1], p[2]))]_vars
====
